---- MODULE Spec2Model ----
(***************************************************************************)
(* Model of the marquee animation sequencer (src/src/timeline.js) driving  *)
(* pause phases (phases.js) through requestAnimationFrame callbacks.       *)
(*                                                                         *)
(* One TLA+ action is one run-to-completion JavaScript handler: an API     *)
(* call made by the page between frames, or one animation-frame callback.  *)
(* Listeners subscribed with on() run synchronously inside emit(); what a  *)
(* listener does is an input of the handler (a reaction), so re-entrant    *)
(* calls of play/pause/stop/setSequence/destroy are part of the action.    *)
(* The handlers are written as operators over a record t that holds the    *)
(* Timeline's fields, the browser's frame-callback table and the history   *)
(* variables; an action packs the variables, applies the handler, and      *)
(* unpacks the result.                                                     *)
(***************************************************************************)
EXTENDS Integers, Sequences, FiniteSets, TLC

\* ------------------------------------------------------------------ bounds
MaxSteps   == 2      \* longest step list handed to setSequence
MaxTime    == 40     \* frame clock horizon (ms)
MaxPending == 2      \* most frame callbacks pending at once

\* --------------------------------------------------------- program constants
IDLE    == 0
PLAYING == 1
PAUSED  == 2
FirstDelta == 16          \* dt of the first executed tick after play()
DefaultPauseDuration == 1000
FpsSlackNum == 800        \* 1000 * 0.8, the skip threshold times maxFps

NoError == ""             \* no exception escaped
UnknownPhase == "Unknown phase"     \* the Error createPhase throws
UpdateFailed == "update failed"     \* an Error thrown by a phase's update(dt)
NoId == 0                 \* rafId null; frame-callback handles are positive
NoPhase == [null |-> TRUE]          \* an empty slot of this.phases
NoSequence == [defined |-> FALSE, steps |-> <<>>]   \* stepConfigs undefined
Sequence(l) == [defined |-> TRUE, steps |-> l]
States == {IDLE, PLAYING, PAUSED}
Events == {"phaseStart", "phaseEnd", "sequenceEnd"}

\* Frame spacings the browser may deliver and the phase durations used.
Deltas    == {8, 16}
Durations == {24}
FpsCap == 30               \* the maxFps option of the capped specification (the mobile default)

\* A step config; onStart and onEnd say that the step carries the callback.
Step(d) == [phase |-> "pause", duration |-> d, onStart |-> TRUE, onEnd |-> TRUE]
Steps == {Step(d) : d \in Durations}

\* The phase types of the registry, and a custom type added with
\* registerPhase whose update(dt) throws.
PHASE_REGISTRY ==
  {"scroll-left", "scroll-right", "flash", "pause", "float-up", "float-down",
   "fade-in", "fade-out", "wipe-in", "wipe-out", "slide-in", "slide-out",
   "split-flap"}
FaultyPhase == "faulty"
Registered == PHASE_REGISTRY \cup {FaultyPhase}
BogusStep == [Step(24) EXCEPT !.phase = "bogus"]
FaultyStep == [Step(24) EXCEPT !.phase = FaultyPhase]
RECURSIVE ListsOver(_, _)
ListsOver(S, n) ==
  IF n = 0 THEN {<<>>}
  ELSE {Append(l, s) : l \in ListsOver(S, n - 1), s \in S}
\* step lists that may hold a step of an unknown type or of the faulty type
ErrStepLists ==
  UNION {ListsOver(Steps \cup {BogusStep, FaultyStep}, n) : n \in 0..MaxSteps}
RECURSIVE ListsOfLen(_)
ListsOfLen(n) ==
  IF n = 0 THEN {<<>>}
  ELSE {Append(l, s) : l \in ListsOfLen(n - 1), s \in Steps}
StepLists == UNION {ListsOfLen(n) : n \in 0..MaxSteps}

\* What a subscribed listener does when it is notified.  "restart" is what
\* Marquee.setText does while playing: stop, setSequence, play.
Reactions ==
  {"none", "stop", "pause", "play", "destroy", "restart", "stop;play", "pause;play"}

MaxLog == 2 * MaxSteps + 2
Min(a, b) == IF a < b THEN a ELSE b

VARIABLES
  state,          \* this.state
  stepConfigs,    \* this.stepConfigs (undefined until setSequence)
  phases,         \* this.phases, index -> phase instance or NoPhase
  currentIndex,   \* this.currentIndex
  rafId,          \* this.rafId
  lastTimestamp,  \* this.lastTimestamp
  listeners,      \* events that have a subscribed listener
  options,        \* this.options: loop, maxFps
  scheduled,      \* browser: ids of pending animation-frame callbacks
  frame,          \* browser: pending callbacks of the frame being run
  now,            \* browser: timestamp of the frame being run, counted from
                  \* the play() that last reset lastTimestamp
  log,            \* history: notifications of the undisturbed play session
  trail,          \* history: state changes made by the last handler
  calls,          \* history: API calls since the session's play(), capped at 2
                  \* (1: the session is undisturbed; 2: disturbed, or none)
  emitted,        \* history: notifications emitted by the last handler
  stopped,        \* history: stop() was called and play() not since
  renderFaults,   \* history: what went wrong in a renderer.render() call
  sumDt,          \* history: sum of dt passed to phase.update since play()
  firstTs,        \* history: timestamp of the first updating tick since play()
  lastOp,         \* history: the last handler and its outcome
  thrown,         \* the exception the last handler let escape, or NoError
  invoked,        \* history: step callbacks (onStart, onEnd) the last handler
                  \* called, as <<name, index>>
  marquee,        \* the Marquee's own this.options: loop
  cur,            \* phases.js: the phase instance being advanced, or NoInst
  prevState,      \* phases.js: the prevState that instance was created with
  built,          \* phases.js: phases created since the predecessor chain began
  done,           \* phases.js: update(dt) returned true
  tokenContext,   \* Timeline.tokenContext: null, or the tokens map
  asked,          \* colors.js: the arguments of the last color call
  answer,         \* colors.js: what that call returned
  led,            \* renderer.js: the dot-matrix renderer with its flip queue
  flap            \* renderer.js: the split-flap renderer with its timers

vars == <<state, stepConfigs, phases, currentIndex, rafId, lastTimestamp,
          listeners, options, scheduled, frame, now, log, trail, calls, emitted,
          stopped, renderFaults, sumDt, firstTs, lastOp, thrown,
          invoked, marquee, cur, prevState, built, done, tokenContext,
          asked, answer, led, flap>>

timelineVars ==
  <<state, stepConfigs, phases, currentIndex, rafId, lastTimestamp,
    listeners, options, scheduled, frame, now, log, trail, calls, emitted,
    stopped, renderFaults, sumDt, firstTs, thrown, invoked, marquee>>

phaseVars == <<cur, prevState, built, done>>

\* what neither the Timeline's handlers nor the phase bench write
restVars == <<tokenContext, asked, answer, led, flap>>

NoPhases == [i \in 0..(MaxSteps - 1) |-> NoPhase]

Pack ==
  [state |-> state, stepConfigs |-> stepConfigs, phases |-> phases,
   currentIndex |-> currentIndex, rafId |-> rafId,
   lastTimestamp |-> lastTimestamp, listeners |-> listeners,
   options |-> options, scheduled |-> scheduled, frame |-> frame, now |-> now,
   log |-> log, trail |-> <<>>, calls |-> calls, emitted |-> <<>>, stopped |-> stopped,
   renderFaults |-> renderFaults, sumDt |-> sumDt, firstTs |-> firstTs,
   op |-> "", thrown |-> NoError, invoked |-> <<>>, marquee |-> marquee]

Unpack(t) ==
  /\ state' = t.state
  /\ stepConfigs' = t.stepConfigs
  /\ phases' = t.phases
  /\ currentIndex' = t.currentIndex
  /\ rafId' = t.rafId
  /\ lastTimestamp' = t.lastTimestamp
  /\ listeners' = t.listeners
  /\ options' = t.options
  /\ scheduled' = t.scheduled
  /\ frame' = t.frame
  /\ now' = t.now
  /\ log' = t.log
  /\ trail' = t.trail
  /\ calls' = t.calls
  /\ emitted' = t.emitted
  /\ stopped' = t.stopped
  /\ renderFaults' = t.renderFaults
  /\ sumDt' = t.sumDt
  /\ firstTs' = t.firstTs
  /\ lastOp' = t.op
  /\ thrown' = t.thrown
  /\ invoked' = t.invoked
  /\ marquee' = t.marquee
  /\ UNCHANGED phaseVars
  /\ UNCHANGED restVars

\* ------------------------------------------------------------ browser
\* requestAnimationFrame: a handle that names no pending callback.
FreshId(t) ==
  LET used == t.scheduled \cup t.frame \cup {t.rafId}
  IN CHOOSE i \in 1..(Cardinality(used) + 1) :
       /\ i \notin used
       /\ \A j \in 1..(i - 1) : j \in used

RequestFrame(t) ==
  LET id == FreshId(t)
  IN [t EXCEPT !.rafId = id, !.scheduled = @ \cup {id}]

CancelFrame(t, id) ==
  [t EXCEPT !.scheduled = @ \ {id}, !.frame = @ \ {id}]

\* ------------------------------------------------------------ phases
PauseDuration(step) ==
  IF step.duration = 0 THEN DefaultPauseDuration ELSE step.duration

\* createPhase for a pause step.  slot (the index it was built for), announced
\* (phaseStart was emitted for this instance) and stale (built from a step
\* list that setSequence has since replaced) are history fields.
CreatePhase(step, hasPrev, slot) ==
  [step |-> step, elapsed |-> 0, started |-> FALSE, inherited |-> hasPrev,
   slot |-> slot, announced |-> FALSE, stale |-> FALSE]

PhaseStart(p) == [p EXCEPT !.elapsed = 0, !.started = TRUE]

PhaseUpdate(p, dt) == [p EXCEPT !.elapsed = @ + dt]

\* update(dt) of the custom phase throws
UpdateThrows(p) == p.step.phase = FaultyPhase

PhaseDone(p) == p.elapsed >= PauseDuration(p.step)

\* ------------------------------------------------------------ numbers
\* JavaScript numbers that are not integers are kept as exact fractions n/d
\* in lowest terms with d > 0.
Abs(x) == IF x < 0 THEN -x ELSE x

RECURSIVE Gcd(_, _)
Gcd(a, b) == IF b = 0 THEN a ELSE Gcd(b, a % b)

Frac(n, d) ==
  LET g == Gcd(Abs(n), Abs(d))
      sgn == IF d < 0 THEN -1 ELSE 1
  IN [n |-> (sgn * n) \div g, d |-> (sgn * d) \div g]

Num(i) == [n |-> i, d |-> 1]
Plus(a, b) == Frac(a.n * b.d + b.n * a.d, a.d * b.d)
Minus(a, b) == Frac(a.n * b.d - b.n * a.d, a.d * b.d)
Times(a, b) == Frac(a.n * b.n, a.d * b.d)
Over(a, b) == Frac(a.n * b.d, a.d * b.n)
Less(a, b) == a.n * b.d < b.n * a.d
AtLeast(a, b) == ~Less(a, b)
MinOf(a, b) == IF Less(a, b) THEN a ELSE b
AbsOf(a) == [n |-> Abs(a.n), d |-> a.d]

\* ------------------------------------------------------------ phases.js
\* A step config as createPhase reads it.  An omitted key holds the falsy
\* value of its type (<<>>, "", 0); text is the list of its characters.
NoState == [null |-> TRUE]          \* prevState null
NoInst == [none |-> TRUE]           \* no phase instance
NoContext == [null |-> TRUE]        \* tokenContext null
NoCall == [none |-> TRUE]           \* no color call made yet
DefaultColor == "#ff3300"
Linear(x) == x                      \* EASINGS.linear, the easing of every
                                    \* step used here (easing: 'linear')

ScrollTypes == {"scroll-left", "scroll-right"}
FloatTypes == {"float-up", "float-down"}
FadeTypes == {"fade-in", "fade-out"}
WipeTypes == {"wipe-in", "wipe-out"}
SlideTypes == {"slide-in", "slide-out"}

\* step.phase || 'pause'
TypeOf(step) == IF step.phase = "" THEN "pause" ELSE step.phase

\* step.duration || <default of the type>
DurationOf(step) ==
  IF step.duration # 0 THEN step.duration
  ELSE CASE TypeOf(step) = "pause" -> DefaultPauseDuration
         [] TypeOf(step) \in FloatTypes -> 800
         [] TypeOf(step) \in FadeTypes -> 600
         [] TypeOf(step) \in WipeTypes -> 800
         [] TypeOf(step) \in SlideTypes -> 600
         [] TypeOf(step) = "split-flap" -> 3000
         [] OTHER -> 0

SpeedOf(step) == IF step.speed # 0 THEN step.speed ELSE 120
UntilOf(step) == IF step.until # "" THEN step.until ELSE "offscreen"
TimesOf(step) == IF step.times # 0 THEN step.times ELSE 3
IntervalOf(step) == IF step.interval # 0 THEN step.interval ELSE 300
DistanceOf(step) == IF step.distance # 0 THEN step.distance ELSE 60
FromOf(step) ==
  IF step.from # "" THEN step.from
  ELSE IF TypeOf(step) = "slide-in" THEN "right" ELSE "left"

\* resolveColors for a string (or missing) colorConfig and no palette
ResolveColors(color, text) ==
  [i \in 1..Len(text) |-> IF color = "" THEN DefaultColor ELSE color]

ColorOf(step) ==
  IF step.color = "" /\ TypeOf(step) = "split-flap" THEN "#e8e8d0" ELSE step.color

\* A makeState that starts every phase from scratch.
MakeStateNoInherit(step, prev) ==
  [text |-> step.text, offsetX |-> Num(0), offsetY |-> Num(0),
   opacity |-> Num(1), visible |-> TRUE, colors |-> <<>>, progress |-> Num(0),
   stripeDirection |-> step.stripeDirection]

\* makeState(step, prevState)
MakeState(step, prev) ==
  [text |-> IF step.text # <<>> THEN step.text
            ELSE IF prev # NoState THEN prev.text ELSE <<>>,
   offsetX |-> IF prev # NoState THEN prev.offsetX ELSE Num(0),
   offsetY |-> IF prev # NoState THEN prev.offsetY ELSE Num(0),
   opacity |-> Num(1),
   visible |-> TRUE,
   colors |-> <<>>,
   progress |-> Num(0),
   stripeDirection |-> IF step.stripeDirection # "" THEN step.stripeDirection
                       ELSE IF prev # NoState THEN prev.stripeDirection ELSE ""]

\* step.text && (!prevState || prevState.text !== step.text)
HasNewText(step, prev) ==
  step.text # <<>> /\ (prev = NoState \/ prev.text # step.text)

CenterX(width, textWidth) == Frac(width - textWidth, 2)

Centered(st, width, textWidth) ==
  [st EXCEPT !.offsetX = CenterX(width, textWidth), !.offsetY = Num(0)]

\* the off-screen edge a scroll (or slide) starts from or ends at
EdgeX(side, width, textWidth) ==
  IF side = "right" THEN Num(width) ELSE Num(0 - textWidth)

\* The state a factory hands out before start(), per phase type.
InitialState(step, width, textWidth, prev) ==
  LET st == MakeState(step, prev)
      type == TypeOf(step)
  IN CASE type \in ScrollTypes ->
            LET from == IF type = "scroll-left" THEN "right" ELSE "left"
            IN IF HasNewText(step, prev)
               THEN [st EXCEPT !.offsetX = EdgeX(from, width, textWidth),
                               !.offsetY = Num(0)]
               ELSE IF prev = NoState
               THEN [st EXCEPT !.offsetX = EdgeX(from, width, textWidth)]
               ELSE st
       [] type \in {"flash", "pause"} \cup FloatTypes ->
            IF HasNewText(step, prev) THEN Centered(st, width, textWidth) ELSE st
       [] type \in {"fade-in", "wipe-in"} ->
            IF HasNewText(step, prev) THEN Centered(st, width, textWidth) ELSE st
       [] type = "slide-in" ->
            [st EXCEPT !.offsetX = EdgeX(FromOf(step), width, textWidth),
                       !.offsetY = Num(0)]
       [] type = "split-flap" -> Centered(st, width, textWidth)
       [] OTHER -> st

\* where the phase moves the text from and to (scroll and slide)
StartX(step, width, textWidth, prev, st) ==
  IF TypeOf(step) = "slide-out" /\ prev = NoState
  THEN CenterX(width, textWidth)
  ELSE st.offsetX

\* A target that ignores until: every scroll runs off-screen.
TargetXIgnoresUntil(step, width, textWidth) ==
  LET type == TypeOf(step)
  IN CASE type \in ScrollTypes ->
            EdgeX(IF type = "scroll-left" THEN "left" ELSE "right", width, textWidth)
       [] type = "slide-in" -> CenterX(width, textWidth)
       [] type = "slide-out" -> EdgeX(FromOf(step), width, textWidth)
       [] OTHER -> Num(0)

TargetX(step, width, textWidth) ==
  LET type == TypeOf(step)
  IN CASE type \in ScrollTypes ->
            IF UntilOf(step) = "center" THEN CenterX(width, textWidth)
            ELSE EdgeX(IF type = "scroll-left" THEN "left" ELSE "right",
                       width, textWidth)
       [] type = "slide-in" -> CenterX(width, textWidth)
       [] type = "slide-out" -> EdgeX(FromOf(step), width, textWidth)
       [] OTHER -> Num(0)

\* the time the phase takes, in ms: totalTime of a scroll, 2 * times *
\* interval of a flash, the duration otherwise
TotalTime(step, startX, targetX) ==
  CASE TypeOf(step) \in ScrollTypes ->
         Times(Over(AbsOf(Minus(targetX, startX)), Num(SpeedOf(step))), Num(1000))
    [] TypeOf(step) = "flash" -> Num(TimesOf(step) * 2 * IntervalOf(step))
    [] OTHER -> Num(DurationOf(step))

\* PHASE_REGISTRY[type](step, containerWidth, textWidth, prevState)
Factory(step, width, textWidth, prev) ==
  LET st == InitialState(step, width, textWidth, prev)
      startX == StartX(step, width, textWidth, prev, st)
      targetX == TargetX(step, width, textWidth)
  IN [type |-> TypeOf(step), step |-> step, state |-> st, elapsed |-> 0,
      toggleCount |-> 0, startX |-> startX, targetX |-> targetX,
      startY |-> st.offsetY, total |-> TotalTime(step, startX, targetX),
      containerWidth |-> width, textWidth |-> textWidth]

\* phase.start()
StartPhase(p) ==
  LET st == [p.state EXCEPT !.colors = ResolveColors(ColorOf(p.step), p.state.text)]
  IN [p EXCEPT !.elapsed = 0, !.toggleCount = 0,
               !.state = CASE p.type = "flash" -> [st EXCEPT !.visible = TRUE]
                           [] p.type = "fade-in" -> [st EXCEPT !.opacity = Num(0)]
                           [] p.type = "fade-out" -> [st EXCEPT !.opacity = Num(1)]
                           [] OTHER -> st]

\* rawProgress: Math.min(elapsed / duration, 1); a scroll guards the division
\* with totalTime > 0 and is at 1 at once otherwise
RawProgress(p, elapsed) ==
  IF p.type \in ScrollTypes /\ p.total.n <= 0 THEN Num(1)
  ELSE MinOf(Over(Num(elapsed), p.total), Num(1))

\* a + (b - a) * eased
Lerp(a, b, eased) == Plus(a, Times(Minus(b, a), eased))

\* update(dt) of a flash phase
UpdateFlash(p, dt) ==
  LET elapsed == p.elapsed + dt
      newToggleCount == elapsed \div IntervalOf(p.step)
      tc == IF newToggleCount > p.toggleCount THEN newToggleCount ELSE p.toggleCount
  IN [p EXCEPT !.elapsed = elapsed, !.toggleCount = tc,
               !.state.visible = IF newToggleCount > p.toggleCount
                                 THEN tc % 2 = 0 ELSE @,
               !.state.progress = MinOf(Frac(tc, TimesOf(p.step) * 2), Num(1))]

\* An update that lets progress run past 1.
UpdateTimedUnclamped(p, dt) ==
  LET elapsed == p.elapsed + dt
      raw == Over(Num(elapsed), p.total)
  IN [p EXCEPT !.elapsed = elapsed, !.state.progress = raw]

\* update(dt) of the phases driven by elapsed / duration
UpdateTimed(p, dt) ==
  LET elapsed == p.elapsed + dt
      raw == RawProgress(p, elapsed)
      eased == Linear(raw)
      st == [p.state EXCEPT !.progress = raw]
  IN [p EXCEPT !.elapsed = elapsed,
       !.state =
          CASE p.type \in ScrollTypes \cup SlideTypes ->
                 [st EXCEPT !.offsetX = Lerp(p.startX, p.targetX, eased)]
            [] p.type = "float-up" ->
                 [st EXCEPT !.offsetY =
                    Minus(p.startY, Times(Num(DistanceOf(p.step)), eased))]
            [] p.type = "float-down" ->
                 [st EXCEPT !.offsetY =
                    Plus(p.startY, Times(Num(DistanceOf(p.step)), eased))]
            [] p.type = "fade-in" -> [st EXCEPT !.opacity = eased]
            [] p.type = "fade-out" -> [st EXCEPT !.opacity = Minus(Num(1), eased)]
            [] OTHER -> st]

\* phase.update(dt): the instance afterwards
UpdatePhase(p, dt) ==
  IF p.type = "flash" THEN UpdateFlash(p, dt) ELSE UpdateTimed(p, dt)

\* phase.update(dt): the value it returns, read off the updated instance
Completes(p) ==
  CASE p.type = "flash" -> p.toggleCount >= TimesOf(p.step) * 2
    [] p.type \in {"pause", "split-flap"} -> AtLeast(Num(p.elapsed), p.total)
    [] OTHER -> AtLeast(p.state.progress, Num(1))

\* ------------------------------------------------------------ Timeline
Window(s) == IF Len(s) > MaxLog THEN Tail(s) ELSE s

Built(t) == {i \in DOMAIN t.phases : t.phases[i] # NoPhase}

SetState(t, s, by) ==
  [t EXCEPT !.state = s,
            !.trail = IF t.state # s THEN Append(@, <<t.state, s, by>>) ELSE @]

Called(t) ==
  [t EXCEPT !.calls = Min(@ + 1, 2), !.log = IF t.calls >= 1 THEN <<>> ELSE @]

\* A stop() that leaves the cursor where it was.
StopKeepsCursor(t) ==
  LET t0 == [Called(t) EXCEPT !.stopped = TRUE]
      t1 == SetState(t0, IDLE, "stop")
      t2 == IF t1.rafId # NoId
            THEN [CancelFrame(t1, t1.rafId) EXCEPT !.rafId = NoId]
            ELSE t1
  IN [t2 EXCEPT !.phases = NoPhases, !.sumDt = 0, !.firstTs = 0]

\* stop()
StopOp(t) ==
  LET t0 == [Called(t) EXCEPT !.stopped = TRUE]
      t1 == SetState(t0, IDLE, "stop")
      t2 == IF t1.rafId # NoId
            THEN [CancelFrame(t1, t1.rafId) EXCEPT !.rafId = NoId]
            ELSE t1
  IN [t2 EXCEPT !.currentIndex = 0, !.phases = NoPhases,
                !.sumDt = 0, !.firstTs = 0]

\* A pause() that discards the constructed phases, as stop() does.
PauseDiscards(t) ==
  LET t0 == Called(t)
  IN IF t0.state # PLAYING THEN t0
     ELSE LET t1 == [SetState(t0, PAUSED, "pause") EXCEPT !.sumDt = 0, !.firstTs = 0]
              t2 == IF t1.rafId # NoId
                    THEN [CancelFrame(t1, t1.rafId) EXCEPT !.rafId = NoId]
                    ELSE t1
          IN [t2 EXCEPT !.phases = NoPhases]

\* pause()
PauseOp(t) ==
  LET t0 == Called(t)
  IN IF t0.state # PLAYING THEN t0
     ELSE LET t1 == [SetState(t0, PAUSED, "pause") EXCEPT !.sumDt = 0, !.firstTs = 0]
          IN IF t1.rafId # NoId
             THEN [CancelFrame(t1, t1.rafId) EXCEPT !.rafId = NoId]
             ELSE t1

\* A setSequence() that replaces the steps without stopping playback.
SetSequenceKeepsPlaying(t, steps) ==
  [Called(t) EXCEPT !.stepConfigs = Sequence(steps), !.currentIndex = 0]

\* setSequence(steps)
SetSequenceOp(t, steps) ==
  LET marked == [t EXCEPT !.phases =
                   [i \in DOMAIN @ |->
                      IF @[i] = NoPhase THEN NoPhase ELSE [@[i] EXCEPT !.stale = TRUE]]]
      t1 == StopOp(marked)
  IN [t1 EXCEPT !.stepConfigs = Sequence(steps), !.phases = NoPhases, !.currentIndex = 0]

\* destroy()
DestroyOp(t) == [StopOp(t) EXCEPT !.listeners = {}]

\* _buildPhase(index), stored at this.phases[index], then phase.start()
BuildPhase(t, index) ==
  LET step == t.stepConfigs.steps[index + 1]
      hasPrev == index > 0 /\ t.phases[index - 1] # NoPhase
  IN CreatePhase(step, hasPrev, index)

Ok(t) == t.thrown = NoError

Throw(t, e) == [t EXCEPT !.thrown = e]

\* createPhase, line 30: the step's type is not in the registry
UnknownType(t, index) == t.stepConfigs.steps[index + 1].phase \notin Registered

BuildAndStart(t, index) ==
  IF UnknownType(t, index) THEN Throw(t, UnknownPhase)
  ELSE [t EXCEPT !.phases[index] = PhaseStart(BuildPhase(t, index))]

NoSteps(t) == ~t.stepConfigs.defined \/ Len(t.stepConfigs.steps) = 0

\* emit(event, data): while the session is undisturbed (no API call since its
\* play()) the notification is logged with what a listener can observe of the
\* Timeline at that moment; a subscribed listener then reacts.
Notify(t, ev, index) ==
  LET entry == [ev |-> ev, index |-> index, state |-> t.state,
                built |-> Built(t),
                announced |-> {i \in Built(t) : t.phases[i].announced}]
      t1 == [t EXCEPT !.log = IF t.calls <= 1 THEN Window(Append(@, entry)) ELSE <<>>,
                      !.emitted = Append(@, <<ev, index>>)]
  IN IF ev = "phaseStart" /\ index \in Built(t1)
     THEN [t1 EXCEPT !.phases[index].announced = TRUE]
     ELSE t1

RestartSteps == <<Step(16)>>

Quiet == [ev |-> "phaseStart", do |-> "none"]

\* play(), lines 50 and 53: the calls that return at once
PlayNoop(t) == t.state = PLAYING \/ (t.state = IDLE /\ NoSteps(t))

PlayEntered(t) == [Called(t) EXCEPT !.stopped = FALSE]

\* play(), lines 54-58: from IDLE, build and start phase 0
PlayPrepare(t) ==
  BuildAndStart([t EXCEPT !.currentIndex = 0, !.phases = NoPhases], 0)

\* play(), lines 62-64
PlayResume(t) ==
  LET t1 == SetState(t, PLAYING, "play")
  IN RequestFrame([t1 EXCEPT !.lastTimestamp = 0, !.sumDt = 0, !.firstTs = 0])

\* play() called by a listener; the phaseStart listeners it notifies only
\* observe (one re-entrant level is modelled).
ResumeNested(t) ==
  IF Ok(t) THEN PlayResume(Notify(t, "phaseStart", 0)) ELSE t

PlayNested(t) ==
  LET t0 == PlayEntered(t)
  IN IF PlayNoop(t0) THEN t0
     ELSE IF t0.state = IDLE THEN ResumeNested(PlayPrepare(t0))
     ELSE PlayResume(t0)

React(t, r) ==
  CASE r = "none"    -> t
    [] r = "stop"    -> StopOp(t)
    [] r = "pause"   -> PauseOp(t)
    [] r = "play"    -> PlayNested(t)
    [] r = "destroy" -> DestroyOp(t)
    [] r = "stop;play"  -> PlayNested(StopOp(t))
    [] r = "pause;play" -> PlayNested(PauseOp(t))
    [] r = "restart" ->
         IF t.state = PLAYING
         THEN PlayNested(SetSequenceOp(StopOp(t), RestartSteps))
         ELSE SetSequenceOp(StopOp(t), RestartSteps)

\* r names the event whose listener reacts and how; the other listeners only
\* observe.
Emit(t, ev, index, r) ==
  LET t1 == Notify(t, ev, index)
  IN IF ev \in t.listeners /\ r.ev = ev THEN React(t1, r.do) ELSE t1

\* A play() that forgets to announce phase 0.
PlayEmitSilent(t, r) == t

PlayEmit(t, r) == Emit(t, "phaseStart", 0, r)

\* The rest of a handler runs only while no exception has been thrown.
EmitIfOk(t, ev, index, r) == IF Ok(t) THEN Emit(t, ev, index, r) ELSE t

PlayEmitIfOk(t, r) == IF Ok(t) THEN PlayEmit(t, r) ELSE t

ResumeIfOk(t) == IF Ok(t) THEN PlayResume(t) ELSE t

FrameIfOk(t, op) == IF Ok(t) THEN [RequestFrame(t) EXCEPT !.op = op] ELSE t

CompleteIfOk(t) ==
  IF Ok(t) THEN [SetState(t, IDLE, "complete") EXCEPT !.op = "tick:finished"]
  ELSE t

\* A play() that marks the Timeline PLAYING before it builds phase 0.
PlayStateFirst(t, r) ==
  LET t0 == PlayEntered(t)
  IN IF PlayNoop(t0) THEN t0
     ELSE IF t0.state = IDLE
     THEN ResumeIfOk(PlayEmitIfOk(PlayPrepare(SetState(t0, PLAYING, "play")), r))
     ELSE PlayResume(t0)

\* play(); r is the reaction of a phaseStart listener
PlayOp(t, r) ==
  LET t0 == PlayEntered(t)
  IN IF PlayNoop(t0) THEN t0
     ELSE IF t0.state = IDLE
     THEN ResumeIfOk(PlayEmitIfOk(PlayPrepare(t0), r))
     ELSE PlayResume(t0)

\* ------------------------------------------------------------ _tick
PhaseAt(t, i) == IF i \in DOMAIN t.phases THEN t.phases[i] ELSE NoPhase

\* A tick that runs whatever the state is.
TickIgnoredNever(t) == FALSE

TickIgnored(t) == t.state # PLAYING

\* elapsed < (1000 / maxFps) * 0.8, in integers
FpsSkip(t, ts) ==
  /\ t.options.maxFps > 0
  /\ t.lastTimestamp # 0
  /\ (ts - t.lastTimestamp) * t.options.maxFps < FpsSlackNum

\* A skipped tick that still moves lastTimestamp.
SkipTickStamps(t, ts) ==
  [RequestFrame(t) EXCEPT !.op = "tick:skipped", !.lastTimestamp = ts]

SkipTick(t, ts) == [RequestFrame(t) EXCEPT !.op = "tick:skipped"]

\* A delta measured from the timestamp 0 that play() stores.
DeltaFromReset(t, ts) == ts - t.lastTimestamp

DeltaOf(t, ts) ==
  IF t.lastTimestamp # 0 THEN ts - t.lastTimestamp ELSE FirstDelta

\* What an observer of renderer.render(state) would object to: the phase was
\* never announced by phaseStart, was built for another index, belongs to a
\* replaced step list, or is rendered although stop() was called and play()
\* not since, or while the Timeline is not PLAYING.
RenderFaults(t, p) ==
  (IF p.announced THEN {} ELSE {"unannounced"})
    \cup (IF p.slot = t.currentIndex THEN {} ELSE {"wrongSlot"})
    \cup (IF p.stale THEN {"stale"} ELSE {})
    \cup (IF t.stopped THEN {"afterStop"} ELSE {})
    \cup (IF t.state = PLAYING THEN {} ELSE {"notPlaying"})

\* phase.update(dt); renderer.render(phase.getState())
UpdateAndRender(t, ts, dt) ==
  LET p == PhaseUpdate(t.phases[t.currentIndex], dt)
  IN IF UpdateThrows(t.phases[t.currentIndex]) THEN Throw(t, UpdateFailed)
     ELSE [t EXCEPT !.phases[t.currentIndex] = p,
                    !.renderFaults = @ \cup RenderFaults(t, p),
                    !.sumDt = @ + dt,
                    !.firstTs = IF @ = 0 THEN ts ELSE @]

AdvanceCursor(t) == [t EXCEPT !.currentIndex = @ + 1]

SequenceEnded(t) == t.currentIndex >= Len(t.stepConfigs.steps)

\* A loop restart that announces phase 0 before the end of the sequence.
LoopRestartSwapped(t, r) ==
  LET t1 == BuildAndStart([t EXCEPT !.currentIndex = 0, !.phases = NoPhases], 0)
      t2 == Emit(t1, "phaseStart", 0, r)
      t3 == Emit(t2, "sequenceEnd", 0, r)
  IN [RequestFrame(t3) EXCEPT !.op = "tick:loop"]

\* loop: rebuild phase 0, emit sequenceEnd, emit phaseStart
LoopRestart(t, r) ==
  LET t1 == BuildAndStart([t EXCEPT !.currentIndex = 0, !.phases = NoPhases], 0)
      t2 == EmitIfOk(t1, "sequenceEnd", 0, r)
      t3 == EmitIfOk(t2, "phaseStart", 0, r)
  IN FrameIfOk(t3, "tick:loop")

\* no loop: emit sequenceEnd, go IDLE, schedule nothing
FinishSequence(t, r) == CompleteIfOk(Emit(t, "sequenceEnd", 0, r))

\* build and start the phase at the cursor, emit phaseStart
NextPhase(t, r) ==
  LET t1 == BuildAndStart(t, t.currentIndex)
      t2 == EmitIfOk(t1, "phaseStart", t.currentIndex, r)
  IN FrameIfOk(t2, "tick:next")

\* A tick that reports the end of a phase only after starting the next one.
PhaseEndedAfterStart(t, r) ==
  LET t1 == AdvanceCursor(t)
      t2 == IF SequenceEnded(t1)
            THEN IF t1.options.loop THEN LoopRestart(t1, r)
                 ELSE FinishSequence(t1, r)
            ELSE NextPhase(t1, r)
  IN Emit(t2, "phaseEnd", t.currentIndex, r)

\* _tick, lines 112-132: after phaseEnd, with the cursor advanced
AfterPhaseEnd(t, r) ==
  IF SequenceEnded(t)
  THEN IF t.options.loop THEN LoopRestart(t, r) ELSE FinishSequence(t, r)
  ELSE NextPhase(t, r)

AdvanceIfOk(t, r) == IF Ok(t) THEN AfterPhaseEnd(AdvanceCursor(t), r) ELSE t

PhaseEnded(t, r) == AdvanceIfOk(Emit(t, "phaseEnd", t.currentIndex, r), r)

\* _tick, lines 109-135: after update and render
AfterUpdate(t, r) ==
  IF ~Ok(t) THEN t
  ELSE IF PhaseDone(t.phases[t.currentIndex]) THEN PhaseEnded(t, r)
  ELSE [RequestFrame(t) EXCEPT !.op = "tick:ran"]

\* _tick(timestamp) up to the point where it returns or an exception escapes
TickBody(t, ts, r) ==
  IF TickIgnored(t) THEN [t EXCEPT !.op = "tick:ignored"]
  ELSE IF FpsSkip(t, ts) THEN SkipTick(t, ts)
  ELSE LET dt == DeltaOf(t, ts)
           t1 == [t EXCEPT !.lastTimestamp = ts]
       IN IF PhaseAt(t1, t1.currentIndex) = NoPhase
          THEN [StopOp(t1) EXCEPT !.op = "tick:nophase"]
          ELSE AfterUpdate(UpdateAndRender(t1, ts, dt), r)

\* _tick(timestamp); r is the reaction of a listener notified during the tick.
\* _tick catches nothing: an exception of a build or an update leaves the
\* fields as they were when it was thrown.
TickResult(t) == IF Ok(t) THEN t ELSE [t EXCEPT !.op = "tick:threw"]

TickOp(t, ts, r) == TickResult(TickBody(t, ts, r))

\* ------------------------------------------------------- renderer.js: cells
\* The options of the 'split-flap-clock' preset.
CellCount == 5
FlipDuration == 100
SplitFlapStagger == 60
WheelOrder == <<" ", "0", "1", "2", "3", "4", "5", "6", "7", "8", "9", ":", ".">>

Cells == 1..CellCount

\* ' '.repeat(n)
Spaces(n) == [i \in 1..n |-> " "]

\* new Renderer(...), _setupSplitFlap: every cell shows ' ' and targets ' '.
\* timers holds the pending setTimeout callbacks in the order they were set,
\* each with the time left until it is due; renders counts the render calls.
NewFlap ==
  [current |-> Spaces(CellCount), target |-> Spaces(CellCount),
   complete |-> TRUE, timers |-> <<>>, renders |-> 0]

\* ------------------------------------------------------------ renderer.js: grid
\* A grid of GridRows x GridCols dots, dot idx = row * GridCols + col.
GridRows == 1
GridCols == 6
FlipSpeed == 30
Dots == 0..(GridRows * GridCols - 1)
ColOf(idx) == idx % GridCols
NoDue == [none |-> TRUE]
NoWipe == [n |-> -1, d |-> 1]

\* new Renderer(...), _setupLed
NewLed ==
  [dots |-> [i \in Dots |-> 0], dotColors |-> [i \in Dots |-> ""],
   flipVisibleDots |-> [i \in Dots |-> 0],
   flipVisibleColors |-> [i \in Dots |-> ""],
   flipCounts |-> [i \in Dots |-> 0], flipQueue |-> <<>>,
   stuckTiles |-> <<>>, clock |-> 0, frames |-> 0,
   changes |-> [i \in Dots |-> 0], due |-> [c \in 0..(GridCols - 1) |-> NoDue],
   schedule |-> <<>>, early |-> {}, setBy |-> [i \in Dots |-> 0],
   stale |-> {}]

\* ------------------------------------------------------------ actions
\* new Timeline(renderer, options)
Constructed(maxFps) ==
  /\ state = IDLE
  /\ stepConfigs = NoSequence
  /\ phases = NoPhases
  /\ currentIndex = 0
  /\ rafId = NoId
  /\ lastTimestamp = 0
  /\ listeners = {}
  /\ options \in [loop : BOOLEAN, maxFps : {maxFps}]
  /\ scheduled = {}
  /\ frame = {}
  /\ now = 0
  /\ log = <<>>
  /\ trail = <<>>
  /\ calls = 2
  /\ emitted = <<>>
  /\ stopped = FALSE
  /\ renderFaults = {}
  /\ sumDt = 0
  /\ firstTs = 0
  /\ lastOp = "new"
  /\ thrown = NoError
  /\ invoked = <<>>
  /\ marquee = [loop |-> options.loop]
  /\ cur = NoInst
  /\ prevState = NoState
  /\ built = 0
  /\ done = FALSE
  /\ tokenContext = NoContext
  /\ asked = NoCall
  /\ answer = <<>>
  /\ led = NewLed
  /\ flap = NewFlap

\* The page calls the API between frames, never in the middle of one.
BetweenFrames == frame = {}

Fits(t) == Cardinality(t.scheduled) <= MaxPending

\* The reactions open to the listeners of the events evs: one listener may
\* call back into the Timeline, or none does.
RSet(evs) ==
  {Quiet} \cup {[ev |-> e, do |-> r] : e \in evs \cap listeners,
                                      r \in Reactions \ {"none"}}

\* The events a tick notifies when no listener interferes.
TickEvents(t, ts) ==
  LET op == TickOp(t, ts, Quiet).op
  IN CASE op = "tick:next"     -> {"phaseEnd", "phaseStart"}
       [] op = "tick:finished" -> {"phaseEnd", "sequenceEnd"}
       [] op = "tick:loop"     -> {"phaseEnd", "sequenceEnd", "phaseStart"}
       [] OTHER                -> {}

Play ==
  /\ BetweenFrames
  /\ \E r \in RSet(IF state = IDLE /\ ~NoSteps(Pack) THEN {"phaseStart"} ELSE {}) :
       LET t0 == IF state = IDLE /\ ~NoSteps(Pack)
                 THEN [Pack EXCEPT !.log = <<>>, !.calls = 0]
                 ELSE Pack
           t1 == PlayOp(t0, r)
           t == [t1 EXCEPT !.op = "play",
                           !.now = IF t1.lastTimestamp = 0 THEN 0 ELSE @]
       IN Fits(t) /\ Unpack(t)

Pause ==
  /\ BetweenFrames
  /\ Unpack([PauseOp(Pack) EXCEPT !.op = "pause"])

Stop ==
  /\ BetweenFrames
  /\ Unpack([StopOp(Pack) EXCEPT !.op = "stop"])

SetSequenceWith(l) ==
  /\ BetweenFrames
  /\ Unpack([SetSequenceOp(Pack, l) EXCEPT !.op = "setSequence"])

SetSequence == \E l \in StepLists : SetSequenceWith(l)

Destroy ==
  /\ BetweenFrames
  /\ Unpack([DestroyOp(Pack) EXCEPT !.op = "destroy"])

\* on(event, fn) for each of the three events, as the Marquee constructor
\* subscribes its forwarder; a listener that reacts "none" to an event is one
\* that is not interested in it.
On ==
  /\ BetweenFrames
  /\ listeners # Events
  /\ Unpack([Pack EXCEPT !.listeners = Events, !.op = "on"])

\* the unsubscribe functions returned by on()
Off ==
  /\ BetweenFrames
  /\ listeners # {}
  /\ Unpack([Pack EXCEPT !.listeners = {}, !.op = "off"])

\* The browser runs one pending frame callback: the first of a new frame, or
\* another callback of the frame being run (same timestamp).
Tick ==
  \E id \in scheduled :
    \E d \in IF id \in frame THEN {0} ELSE IF frame = {} THEN Deltas ELSE {} :
      /\ now + d <= MaxTime
      /\ LET t0 == [Pack EXCEPT !.scheduled = @ \ {id},
                                !.frame = IF d = 0 THEN @ \ {id} ELSE scheduled \ {id},
                                !.now = now + d]
         IN \E r \in RSet(TickEvents(t0, now + d)) :
              LET t == TickOp(t0, now + d, r)
              IN Fits(t) /\ Unpack(t)

Next ==
  \/ Play
  \/ Pause
  \/ Stop
  \/ SetSequence
  \/ Destroy
  \/ On
  \/ Off
  \/ Tick

\* Timelines without a frame-rate cap (maxFps: 0, the Marquee default).
Init == Constructed(0)

Spec == Init /\ [][Next]_vars

\* Timelines with a frame-rate cap.
InitCap == Constructed(FpsCap)

SpecCap == InitCap /\ [][Next]_vars

\* Timelines given step lists that make createPhase or update throw; no
\* listener is subscribed.
SetSequenceErr == \E l \in ErrStepLists : SetSequenceWith(l)

NextErr ==
  \/ Play
  \/ Pause
  \/ Stop
  \/ SetSequenceErr
  \/ Tick

InitErr == Constructed(0)

SpecErr == InitErr /\ [][NextErr]_vars

\* ------------------------------------------------------------ Marquee options
\* An options block: whether it has a loop key and its value, and whether it
\* names a preset or sets led.
OptionBlocks == [hasLoop : BOOLEAN, loop : BOOLEAN, preset : BOOLEAN, led : BOOLEAN]

\* Object.assign(this.options, opts), as far as loop goes
AssignOptions(t, opts) ==
  IF opts.hasLoop THEN [t EXCEPT !.marquee.loop = opts.loop] ELSE t

\* Marquee.setTheme(opts): stop, merge the options, rebuild the renderer
SetThemeOp(t, opts) == AssignOptions(StopOp(t), opts)

\* A data file: an optional options block and an optional sequence.
NoBlock == [given |-> FALSE, block |-> [hasLoop |-> FALSE, loop |-> FALSE,
                                        preset |-> FALSE, led |-> FALSE]]
DataFiles ==
  [options : {NoBlock} \cup {[given |-> TRUE, block |-> b] : b \in OptionBlocks},
   sequence : {NoSequence} \cup {Sequence(l) : l \in StepLists}]

\* _applyLoadedData, lines 251-258: the options block
ApplyOptions(t, data) ==
  IF ~data.options.given THEN t
  ELSE IF data.options.block.preset \/ data.options.block.led
  THEN SetThemeOp(t, data.options.block)
  ELSE LET t1 == AssignOptions(t, data.options.block)
       IN [t1 EXCEPT !.options.loop = t1.marquee.loop]

\* _applyLoadedData, lines 304-309: stop, sequence(steps), play
ApplySequence(t, data) ==
  IF ~data.sequence.defined THEN t
  ELSE PlayOp(SetSequenceOp(StopOp(t), data.sequence.steps), Quiet)

ApplyLoadedDataOp(t, data) == ApplySequence(ApplyOptions(t, data), data)

SetTheme ==
  /\ BetweenFrames
  /\ \E opts \in OptionBlocks :
       Unpack([SetThemeOp(Pack, opts) EXCEPT !.op = "setTheme"])

ApplyLoadedData ==
  /\ BetweenFrames
  /\ \E data \in DataFiles :
       LET t1 == ApplyLoadedDataOp(Pack, data)
           t == [t1 EXCEPT !.op = "applyLoadedData",
                           !.now = IF t1.lastTimestamp = 0 THEN 0 ELSE @]
       IN Fits(t) /\ Unpack(t)

\* A Marquee whose options are changed while it plays; no listener reacts.
NextOpts ==
  \/ SetTheme
  \/ ApplyLoadedData
  \/ Play
  \/ Pause
  \/ Tick

InitOpts == Constructed(0)

SpecOpts == InitOpts /\ [][NextOpts]_vars

\* ------------------------------------------------------------ phase bench
\* Phases are created and advanced the way the Timeline does it: a phase is
\* built with the state of its completed predecessor (or null for the first),
\* started, and updated until update returns true.
MaxChain == 2             \* phases built one after the other

ContainerWidths == {500}
PxPerChar == {30}         \* renderer.measureText: width of one character
BenchDeltas == {60, 100}
HI == <<"H", "I">>
YO == <<"Y", "O">>

BenchStep(type, text, color, stripe) ==
  [phase |-> type, text |-> text, color |-> color, stripeDirection |-> stripe,
   duration |-> 100, speed |-> 2800, until |-> "center", times |-> 1,
   interval |-> 50, distance |-> 0, from |-> "", easing |-> "linear",
   liveTokens |-> FALSE]

\* Steps that bring their own text, color and stripe direction, steps that
\* bring nothing, and a scroll that runs off-screen.
BenchSteps ==
  {BenchStep(ty, HI, "#00ff00", "horizontal") : ty \in PHASE_REGISTRY}
    \cup {BenchStep(ty, <<>>, "", "") : ty \in PHASE_REGISTRY \cup {""}}
    \cup {BenchStep("pause", YO, "", ""),
          [BenchStep("scroll-left", HI, "", "") EXCEPT !.until = ""]}

\* Timeline._buildPhase: the text that is measured and the predecessor's state
MeasuredText(step, prev) ==
  IF step.text # <<>> THEN step.text
  ELSE IF prev # NoState THEN prev.text ELSE <<>>

TextWidth(text, px) == Len(text) * px

BuildFrom(step, width, px, prev) ==
  StartPhase(Factory(step, width, TextWidth(MeasuredText(step, prev), px), prev))

Create ==
  /\ built < MaxChain
  /\ cur = NoInst \/ done
  /\ \E step \in BenchSteps, width \in ContainerWidths, px \in PxPerChar :
       LET prev == IF cur = NoInst THEN NoState ELSE cur.state
       IN /\ cur' = BuildFrom(step, width, px, prev)
          /\ prevState' = prev
  /\ built' = built + 1
  /\ done' = FALSE
  /\ lastOp' = "create"
  /\ UNCHANGED timelineVars
  /\ UNCHANGED restVars

Advance ==
  /\ cur # NoInst
  /\ ~done
  /\ \E dt \in BenchDeltas :
       /\ cur' = UpdatePhase(cur, dt)
       /\ done' = Completes(UpdatePhase(cur, dt))
  /\ lastOp' = "advance"
  /\ UNCHANGED <<prevState, built>>
  /\ UNCHANGED timelineVars
  /\ UNCHANGED restVars

NextBench ==
  \/ Create
  \/ Advance

InitBench == Constructed(0) /\ ~options.loop

SpecBench == InitBench /\ [][NextBench]_vars

\* ------------------------------------------------------------ malformed steps
\* The bench with steps whose duration or speed is zero or negative.  A phase
\* that never completes is advanced until MaxElapsed ms have gone by.
MaxElapsed == 300

MalformedStep(type, duration, speed) ==
  [BenchStep(type, HI, "", "") EXCEPT !.duration = duration, !.speed = speed]

MalformedSteps ==
  {MalformedStep(ty, d, 2800) :
     ty \in PHASE_REGISTRY \ (ScrollTypes \cup {"flash"}), d \in {0, -5}}
    \cup {MalformedStep(ty, 100, sp) : ty \in ScrollTypes, sp \in {0, -100}}

CreateMalformed ==
  /\ built < MaxChain
  /\ cur = NoInst \/ done
  /\ \E step \in MalformedSteps, width \in ContainerWidths, px \in PxPerChar :
       LET prev == IF cur = NoInst THEN NoState ELSE cur.state
       IN /\ cur' = BuildFrom(step, width, px, prev)
          /\ prevState' = prev
  /\ built' = built + 1
  /\ done' = FALSE
  /\ lastOp' = "create"
  /\ UNCHANGED timelineVars
  /\ UNCHANGED restVars

AdvanceWithin ==
  /\ cur # NoInst
  /\ cur.elapsed < MaxElapsed
  /\ Advance

NextMalformed ==
  \/ CreateMalformed
  \/ AdvanceWithin

SpecMalformed == InitBench /\ [][NextMalformed]_vars

\* ------------------------------------------------------------ tokens.js
\* A text is the list of its characters.  Of the placeholders only the custom
\* tokens of context.tokens are used here; an unknown one is left as it is.
\* The first "}" after position i, or 0.
CloseAt(text, i) ==
  LET js == {j \in (i + 1)..Len(text) : text[j] = "}"}
  IN IF js = {} THEN 0 ELSE CHOOSE j \in js : \A k \in js : j <= k

\* text.replace(/\{([^}]+)\}/g, ...) from position i on
RECURSIVE ResolveFrom(_, _, _)
ResolveFrom(text, i, tokens) ==
  IF i > Len(text) THEN <<>>
  ELSE IF text[i] = "{" /\ CloseAt(text, i) > i + 1
  THEN LET j == CloseAt(text, i)
           key == SubSeq(text, i + 1, j - 1)
       IN (IF key \in DOMAIN tokens THEN tokens[key] ELSE SubSeq(text, i, j))
            \o ResolveFrom(text, j + 1, tokens)
  ELSE <<text[i]>> \o ResolveFrom(text, i + 1, tokens)

\* resolveTokens(text, context)
ResolveTokens(text, context) == ResolveFrom(text, 1, context.tokens)

\* createPhase, lines 25-27: the step the factory and the wrapper see
ResolvedStep(step, context) ==
  IF step.text # <<>> /\ context # NoContext
  THEN [step EXCEPT !.text = ResolveTokens(step.text, context)]
  ELSE step

\* createPhase(step, containerWidth, textWidth, prevState, null, tokenContext)
CreatePhaseOf(step, width, textWidth, prev, context) ==
  Factory(ResolvedStep(step, context), width, textWidth, prev)

\* update(dt) as the factories write it, colors included: every phase but
\* pause and split-flap resolves its colors again for the text of the state
UpdateColored(p, dt) ==
  LET q == UpdatePhase(p, dt)
  IN IF q.type \in {"pause", "split-flap"} THEN q
     ELSE [q EXCEPT !.state.colors = ResolveColors(ColorOf(q.step), q.state.text)]

\* createPhase, lines 34-43: the update of a liveTokens step resolves the
\* tokens of step.text again after the factory's update
UpdateWrapped(p, dt, context) ==
  LET q == UpdateColored(p, dt)
  IN IF p.step.liveTokens /\ context # NoContext
     THEN [q EXCEPT !.state.text = ResolveTokens(p.step.text, context)]
     ELSE q

\* ------------------------------------------------------------ phase life
\* A phase from its construction on: created, started, updated frame by
\* frame, while the page may change the custom tokens between frames.
KeyA == <<"a">>
PlaceholderA == <<"{", "a", "}">>
TokenMaps == {<<>>, [k \in {KeyA} |-> YO]}

LiveStep(type, text, live) ==
  [BenchStep(type, text, "", "") EXCEPT !.liveTokens = live]

ShapeSteps ==
  {LiveStep(ty, PlaceholderA, lv) : ty \in PHASE_REGISTRY, lv \in BOOLEAN}
    \cup {LiveStep(ty, tx, FALSE) : ty \in PHASE_REGISTRY, tx \in {HI, <<>>}}

\* The predecessor: none, or a pause showing HI that has completed.
ShapePrevs ==
  {NoState,
   UpdatePhase(BuildFrom(BenchStep("pause", HI, "", ""), 500, 30, NoState),
               100).state}

\* new Marquee(...), index.js lines 81-84
AttachContext ==
  /\ tokenContext = NoContext
  /\ cur = NoInst
  /\ \E m \in TokenMaps : tokenContext' = [tokens |-> m]
  /\ lastOp' = "attach"
  /\ UNCHANGED <<timelineVars, phaseVars, asked, answer, led, flap>>

\* Marquee.setTokens(tokens), between two frames
SetTokens ==
  /\ tokenContext # NoContext
  /\ lastOp \in {"start", "update"}
  /\ \E m \in TokenMaps : tokenContext' = [tokens |-> m]
  /\ lastOp' = "setTokens"
  /\ UNCHANGED <<timelineVars, phaseVars, asked, answer, led, flap>>

Construct ==
  /\ cur = NoInst
  /\ \E step \in ShapeSteps, width \in ContainerWidths, px \in PxPerChar,
        prev \in ShapePrevs :
       /\ cur' = CreatePhaseOf(step, width,
                               TextWidth(MeasuredText(step, prev), px), prev,
                               tokenContext)
       /\ prevState' = prev
  /\ built' = built + 1
  /\ done' = FALSE
  /\ lastOp' = "construct"
  /\ UNCHANGED <<timelineVars, restVars>>

Start ==
  /\ lastOp = "construct"
  /\ cur' = StartPhase(cur)
  /\ lastOp' = "start"
  /\ UNCHANGED <<prevState, built, done, timelineVars, restVars>>

Update ==
  /\ lastOp \in {"start", "update", "setTokens"}
  /\ ~done
  /\ \E dt \in BenchDeltas :
       /\ cur' = UpdateWrapped(cur, dt, tokenContext)
       /\ done' = Completes(UpdatePhase(cur, dt))
  /\ lastOp' = "update"
  /\ UNCHANGED <<prevState, built, timelineVars, restVars>>

NextShape ==
  \/ AttachContext
  \/ SetTokens
  \/ Construct
  \/ Start
  \/ Update

SpecShape == InitBench /\ [][NextShape]_vars

\* ------------------------------------------------------------ colors.js
\* A color string is the list of its characters; the palette of a preset is
\* a list of color strings, NoPalette when the preset has none (null).
MaxPalette == 3           \* entries of a palette

NaN == -1
Infinity == 3 * 255 * 255 + 1
NoPalette == <<"null">>

HexDigits ==
  <<"0", "1", "2", "3", "4", "5", "6", "7", "8", "9",
    "a", "b", "c", "d", "e", "f">>

\* toLowerCase, for the letters that occur in the colors used here
Lower(ch) ==
  CASE ch = "A" -> "a" [] ch = "B" -> "b" [] ch = "C" -> "c"
    [] ch = "D" -> "d" [] ch = "E" -> "e" [] ch = "F" -> "f"
    [] OTHER -> ch

LowerCase(str) == [i \in 1..Len(str) |-> Lower(str[i])]

IsHex(ch) == \E i \in 1..16 : HexDigits[i] = Lower(ch)

HexVal(ch) == (CHOOSE i \in 1..16 : HexDigits[i] = Lower(ch)) - 1

\* str.slice(a, b)
Slice(str, a, b) == SubSeq(str, a + 1, IF b < Len(str) THEN b ELSE Len(str))

\* parseInt(str, 16) of at most two characters: the longest prefix of hex
\* digits, NaN when there is none
ParseInt16(str) ==
  IF str = <<>> \/ ~IsHex(str[1]) THEN NaN
  ELSE IF Len(str) = 1 \/ ~IsHex(str[2]) THEN HexVal(str[1])
  ELSE 16 * HexVal(str[1]) + HexVal(str[2])

Red(c) == ParseInt16(Slice(c, 1, 3))
Green(c) == ParseInt16(Slice(c, 3, 5))
Blue(c) == ParseInt16(Slice(c, 5, 7))

\* (r - pr) ** 2 + (g - pg) ** 2 + (b - pb) ** 2
Dist(c, pc) ==
  IF NaN \in {Red(c), Green(c), Blue(c), Red(pc), Green(pc), Blue(pc)} THEN NaN
  ELSE (Red(c) - Red(pc)) * (Red(c) - Red(pc))
         + (Green(c) - Green(pc)) * (Green(c) - Green(pc))
         + (Blue(c) - Blue(pc)) * (Blue(c) - Blue(pc))

\* A comparison that lets a later palette entry at the same distance win.
CloserOrAsClose(dist, bestDist) == dist # NaN /\ dist <= bestDist

\* dist < bestDist
Closer(dist, bestDist) == dist # NaN /\ dist < bestDist

\* snapToPresetColor: the loop over the palette from entry i on
RECURSIVE SnapLoop(_, _, _, _, _)
SnapLoop(hexColor, presetColors, i, best, bestDist) ==
  IF i > Len(presetColors) THEN best
  ELSE LET pc == presetColors[i]
           dist == Dist(hexColor, pc)
       IN IF Closer(dist, bestDist)
          THEN SnapLoop(hexColor, presetColors, i + 1, pc, dist)
          ELSE SnapLoop(hexColor, presetColors, i + 1, best, bestDist)

\* snapToPresetColor(hexColor, presetColors)
SnapToPresetColor(hexColor, presetColors) ==
  IF presetColors = NoPalette \/ presetColors = <<>> THEN hexColor
  ELSE SnapLoop(hexColor, presetColors, 1, presetColors[1], Infinity)

DefaultHex == <<"#", "f", "f", "3", "3", "0", "0">>

IsHex6(c) == Len(c) = 7 /\ c[1] = "#" /\ \A i \in 2..7 : IsHex(c[i])
IsHex3(c) == Len(c) = 4 /\ c[1] = "#" /\ \A i \in 2..4 : IsHex(c[i])

\* the named colors, of which red and lime are used here
Named(c) ==
  CASE c = <<"r", "e", "d">> -> <<"#", "f", "f", "0", "0", "0", "0">>
    [] c = <<"l", "i", "m", "e">> -> <<"#", "0", "0", "c", "c", "0", "0">>
    [] OTHER -> <<>>

\* normalizeColor(color)
NormalizeColor(color) ==
  IF color = <<>> THEN DefaultHex
  ELSE IF IsHex6(color) THEN LowerCase(color)
  ELSE IF IsHex3(color)
  THEN LowerCase(<<"#", color[2], color[2], color[3], color[3],
                   color[4], color[4]>>)
  ELSE IF Named(LowerCase(color)) # <<>> THEN Named(LowerCase(color))
  ELSE color

\* resolveColors(colorConfig, text, progress, presetColors) for a string (or
\* missing) colorConfig
ResolveColorsSnapped(colorConfig, text, presetColors) ==
  LET fill == IF colorConfig = <<>> THEN DefaultHex ELSE colorConfig
      c == IF presetColors # NoPalette /\ presetColors # <<>>
           THEN SnapToPresetColor(NormalizeColor(fill), presetColors)
           ELSE fill
  IN [i \in 1..Len(text) |-> c]

\* ------------------------------------------------------------ color bench
\* One call of a color function per behaviour: the functions keep no state.
Hex(r1, r2, g1, g2, b1, b2) == <<"#", r1, r2, g1, g2, b1, b2>>

PaletteColors ==
  {Hex("f", "f", "0", "0", "0", "0"), Hex("0", "0", "f", "f", "0", "0"),
   Hex("0", "0", "0", "0", "f", "f")}

\* colors as normalizeColor hands them to snapToPresetColor
HexColors ==
  {Hex("0", "0", "1", "0", "e", "e"), Hex("0", "0", "0", "0", "0", "0"),
   Hex("f", "f", "1", "1", "0", "0"), Hex("f", "f", "f", "f", "f", "f"),
   Hex("8", "0", "8", "0", "0", "0")}

\* what a step may give as its color: nothing, hex in both notations, a
\* name, and strings that are no color
ColorConfigs ==
  {<<>>, Hex("f", "f", "1", "1", "0", "0"), <<"#", "0", "F", "0">>,
   <<"r", "e", "d">>, <<"n", "o", "p", "e">>, <<"#", "1", "2">>,
   <<"r", "g", "b", "(", "0", ")">>}

Palettes == UNION {[1..n -> PaletteColors] : n \in 1..MaxPalette}

\* snapToPresetColor(c, P)
SnapColor ==
  /\ asked = NoCall
  /\ \E c \in HexColors, P \in Palettes :
       /\ asked' = [color |-> c, palette |-> P]
       /\ answer' = SnapToPresetColor(c, P)
  /\ lastOp' = "snap"
  /\ UNCHANGED <<timelineVars, phaseVars, tokenContext, led, flap>>

\* resolveColors(colorConfig, 'HI', 0, presetColors)
ResolveColor ==
  /\ asked = NoCall
  /\ \E c \in ColorConfigs, P \in Palettes \cup {NoPalette, <<>>} :
       /\ asked' = [color |-> c, palette |-> P]
       /\ answer' = ResolveColorsSnapped(c, HI, P)
  /\ lastOp' = "resolve"
  /\ UNCHANGED <<timelineVars, phaseVars, tokenContext, led, flap>>

NextColors ==
  \/ SnapColor
  \/ ResolveColor

SpecColors == InitBench /\ [][NextColors]_vars

\* ------------------------------------------------------------ renderer.js: dot matrix
\* The LED renderer with flipAnimation.  What the glyphs of the text light up
\* is an input of render(state): for every dot its color, "" for a dot that
\* stays off.  led.clock is performance.now(); led.frames, led.changes,
\* led.due, led.schedule, led.early, led.setBy and led.stale are history, and
\* so is the field frame of a queued event: the render call that pushed it.
MaxFrames == 3            \* render calls

\* _renderLed: the dots the text lights up
MapText(l, lit) ==
  [l EXCEPT !.dots = [i \in Dots |-> IF lit[i] # "" THEN 1 ELSE 0],
            !.dotColors = lit]

\* _renderLed: the wipe effect clears the dots from column wipeCol on
Wipe(l, wipeProgress) ==
  IF wipeProgress = NoWipe THEN l
  ELSE LET wipeCol == (GridCols * wipeProgress.n) \div wipeProgress.d
       IN [l EXCEPT !.dots = [i \in Dots |-> IF ColOf(i) >= wipeCol THEN 0 ELSE @[i]]]

\* _applyStuckTiles
ApplyStuckTiles(l) ==
  [l EXCEPT
     !.dots = [i \in Dots |->
                 IF i \in DOMAIN l.stuckTiles
                 THEN IF l.stuckTiles[i] = "on" THEN 1
                      ELSE IF l.stuckTiles[i] = "off" THEN 0 ELSE @[i]
                 ELSE @[i]],
     !.dotColors = [i \in Dots |->
                      IF i \in DOMAIN l.stuckTiles /\ l.stuckTiles[i] = "on"
                           /\ @[i] = ""
                      THEN DefaultColor ELSE @[i]]]

\* _flipApply: a dot whose target differs from what is visible
DotChanged(l, i) ==
  \/ l.dots[i] # l.flipVisibleDots[i]
  \/ l.dots[i] = 1 /\ l.flipVisibleColors[i] # l.dotColors[i]

ChangedCols(l) == {ColOf(i) : i \in {j \in Dots : DotChanged(l, j)}}

\* [...changedCols].sort((a, b) => a - b)[k], k from 0
SortedCol(cols, k) == CHOOSE c \in cols : Cardinality({b \in cols : b < c}) = k

\* the target of a column, row by row
ColumnTarget(l, col) ==
  [r \in 0..(GridRows - 1) |->
     [on |-> l.dots[r * GridCols + col], color |-> l.dotColors[r * GridCols + col]]]

\* _flipApply: the events pushed for the changed columns, left to right
NewFlips(l, at) ==
  LET cols == ChangedCols(l)
  IN [m \in 1..(Cardinality(cols) * GridRows) |->
        LET ci == (m - 1) \div GridRows
            idx == ((m - 1) % GridRows) * GridCols + SortedCol(cols, ci)
        IN [idx |-> idx, targetOn |-> l.dots[idx],
            targetColor |-> l.dotColors[idx], time |-> at + ci * FlipSpeed,
            frame |-> l.frames]]

\* history: the due time a changed column was given when its present target
\* was first scheduled
NoteDue(l, at) ==
  LET cols == ChangedCols(l)
      rank(c) == Cardinality({b \in cols : b < c})
  IN [l EXCEPT
        !.schedule = [ci \in 1..Cardinality(cols) |->
                        [col |-> SortedCol(cols, ci - 1),
                         time |-> at + (ci - 1) * FlipSpeed]],
        !.due = [c \in 0..(GridCols - 1) |->
                   IF c \notin cols THEN NoDue
                   ELSE IF @[c] # NoDue /\ @[c].target = ColumnTarget(l, c)
                   THEN @[c]
                   ELSE [time |-> at + rank(c) * FlipSpeed,
                         target |-> ColumnTarget(l, c)]]]

\* _processFlipQueue: if (this._flipVisibleDots[item.idx] !== item.targetOn)
CountsFlip(l, item) == l.flipVisibleDots[item.idx] # item.targetOn

\* history: the event changes what the dot shows
Shows(l, item) ==
  \/ l.flipVisibleDots[item.idx] # item.targetOn
  \/ item.targetOn = 1 /\ l.flipVisibleColors[item.idx] # item.targetColor

\* _processFlipQueue: one event that is due
ApplyFlip(l, item, at) ==
  LET col == ColOf(item.idx)
  IN [l EXCEPT
        !.flipCounts[item.idx] = IF CountsFlip(l, item) THEN @ + 1 ELSE @,
        !.flipVisibleDots[item.idx] = item.targetOn,
        !.flipVisibleColors[item.idx] = item.targetColor,
        !.changes[item.idx] = IF Shows(l, item) THEN @ + 1 ELSE @,
        !.early = IF Shows(l, item) /\ l.due[col] # NoDue /\ at < l.due[col].time
                  THEN @ \cup {col} ELSE @,
        !.setBy[item.idx] = IF item.frame > @ THEN item.frame ELSE @,
        !.stale = IF Shows(l, item) /\ item.frame < l.setBy[item.idx]
                  THEN @ \cup {item.idx} ELSE @]

\* _processFlipQueue(now): the events of queue from the i-th on
RECURSIVE ProcessFrom(_, _, _, _)
ProcessFrom(l, queue, i, at) ==
  IF i > Len(queue) THEN l
  ELSE IF at >= queue[i].time
  THEN ProcessFrom(ApplyFlip(l, queue[i], at), queue, i + 1, at)
  ELSE ProcessFrom([l EXCEPT !.flipQueue = Append(@, queue[i])], queue, i + 1, at)

ProcessFlipQueue(l, at) ==
  ProcessFrom([l EXCEPT !.flipQueue = <<>>], l.flipQueue, 1, at)

\* _flipApply(offColor, glowAmount, opacityFactor)
FlipApply(l, at) ==
  ProcessFlipQueue([NoteDue(l, at) EXCEPT !.flipQueue = @ \o NewFlips(l, at)],
                   at)

\* _renderLed(state)
RenderLed(l, st, at) ==
  LET cleared == [l EXCEPT !.dots = [i \in Dots |-> 0],
                           !.dotColors = [i \in Dots |-> ""]]
  IN IF ~st.visible THEN FlipApply(cleared, at)
     ELSE FlipApply(ApplyStuckTiles(Wipe(MapText(cleared, st.lit),
                                         st.wipeProgress)), at)

\* ------------------------------------------------------------ dot matrix bench
FrameDeltas == {10, 30}

\* columns 2, 3 and 5 lit in one color
Lit(color) == [i \in Dots |-> IF ColOf(i) \in {2, 3, 5} THEN color ELSE ""]

LedFrame(lit, visible, wipeProgress) ==
  [lit |-> lit, visible |-> visible, wipeProgress |-> wipeProgress]

\* column 2 lit in red and column 3 in green
LitTwo ==
  [i \in Dots |-> IF ColOf(i) = 2 THEN "#ff0000"
                  ELSE IF ColOf(i) = 3 THEN "#00ff00" ELSE ""]

LedFrames ==
  {LedFrame(Lit("#ff0000"), TRUE, NoWipe), LedFrame(Lit("#00ff00"), TRUE, NoWipe),
   LedFrame(Lit(""), TRUE, NoWipe), LedFrame(Lit("#ff0000"), FALSE, NoWipe),
   LedFrame(Lit("#ff0000"), TRUE, Frac(1, 2)), LedFrame(LitTwo, TRUE, NoWipe)}

\* setStuckTiles({'0,0': 'on', '0,3': 'off'}) and setStuckTiles(null)
StuckTileMaps == {<<>>, (0 :> "on") @@ (3 :> "off")}

\* renderer.render(state), d ms after the previous frame
Render ==
  /\ led.frames < MaxFrames
  /\ \E st \in LedFrames, d \in FrameDeltas :
       led' = RenderLed([led EXCEPT !.clock = @ + d, !.frames = @ + 1], st,
                        led.clock + d)
  /\ lastOp' = "render"
  /\ UNCHANGED <<timelineVars, phaseVars, tokenContext, asked, answer, flap>>

SetStuckTiles ==
  /\ \E tiles \in StuckTileMaps \ {led.stuckTiles} :
       led' = [led EXCEPT !.stuckTiles = tiles]
  /\ lastOp' = "setStuckTiles"
  /\ UNCHANGED <<timelineVars, phaseVars, tokenContext, asked, answer, flap>>

NextLed ==
  \/ Render
  \/ SetStuckTiles

SpecLed == InitBench /\ [][NextLed]_vars

\* the Sequencer renders a frame on every tick while its sequence runs, and
\* a sequence that does not loop ends: MaxFrames frames at most
SpecLedFair == SpecLed /\ WF_vars(Render)

\* ------------------------------------------------------- renderer.js: split flap
MaxRenders == 2

\* text.toUpperCase(), on the letters the frames below use
Upper(ch) ==
  CASE ch = "a" -> "A" [] ch = "b" -> "B" [] OTHER -> ch

ToUpperCase(text) == [i \in 1..Len(text) |-> Upper(text[i])]

\* _renderSplitFlap: pad or trim to cell count, centering the text
Fit(text) ==
  IF Len(text) < CellCount
  THEN LET pad == (CellCount - Len(text)) \div 2
       IN Spaces(pad) \o text \o Spaces(CellCount - Len(text) - pad)
  ELSE Slice(text, 0, CellCount)

\* wheel.indexOf(ch): 0-based, -1 when ch is not on the wheel
IndexOf(wheel, ch) ==
  IF \E i \in 1..Len(wheel) : wheel[i] = ch
  THEN (CHOOSE i \in 1..Len(wheel) :
          wheel[i] = ch /\ \A j \in 1..(i - 1) : wheel[j] # ch) - 1
  ELSE -1

\* _flipCell: nextChar, one step on the wheel after ch (a character that is not
\* on the wheel counts as position 0)
NextChar(wheel, ch) ==
  LET currentPos == IF IndexOf(wheel, ch) = -1 THEN 0 ELSE IndexOf(wheel, ch)
  IN wheel[((currentPos + 1) % Len(wheel)) + 1]

\* only the first cell is at its target
FirstSettled(f) == f.current[1] = f.target[1]

\* _checkSplitFlapComplete: no cell differs from its target
AllSettled(f) == \A i \in DOMAIN f.current : f.current[i] = f.target[i]

\* _checkSplitFlapComplete()
CheckSplitFlapComplete(f) ==
  IF AllSettled(f) THEN [f EXCEPT !.complete = TRUE] ELSE f

\* _renderSplitFlap: setTimeout(() => this._flipCell(i, ...), i * stagger),
\* for the cell with the 0-based index i - 1
StartTimer(i) ==
  [cell |-> i, kind |-> "start", left |-> (i - 1) * SplitFlapStagger,
   nextChar |-> " ", target |-> " "]

\* _flipCell: setTimeout(() => {...}, flipDuration); the callback keeps the
\* nextChar and the target of the call that set it
StepTimer(i, nextChar, target) ==
  [cell |-> i, kind |-> "step", left |-> FlipDuration,
   nextChar |-> nextChar, target |-> target]

\* _flipCell(cellIndex, wheel, flipDuration); a cell that the arrays do not
\* hold reads undefined for both its character and its target
FlipCell(f, i) ==
  IF i \notin DOMAIN f.current \/ f.current[i] = f.target[i]
  THEN CheckSplitFlapComplete(f)
  ELSE [f EXCEPT !.current[i] = NextChar(WheelOrder, @),
                 !.timers = Append(@, StepTimer(i, NextChar(WheelOrder, f.current[i]),
                                                f.target[i]))]

\* the callback _flipCell sets: continue flipping if not at target
AfterFlip(f, t) ==
  IF t.nextChar # t.target THEN FlipCell(f, t.cell) ELSE CheckSplitFlapComplete(f)

\* a timer's callback
RunTimer(f, t) ==
  IF t.kind = "start" THEN FlipCell(f, t.cell) ELSE AfterFlip(f, t)

\* the cells whose target the text changes
ChangedCells(f, text) == {i \in Cells : f.target[i] # text[i]}

\* the timers _renderSplitFlap sets, in the order of its loop
StartTimers(cells) ==
  [k \in 1..Cardinality(cells) |->
     StartTimer(CHOOSE i \in cells : Cardinality({j \in cells : j < i}) = k - 1)]

\* clearTimeout(this._sfFlipTimers[i]) for the cells that change
ClearTimers(timers, cells) ==
  LET Keep(t) == ~(t.kind = "start" /\ t.cell \in cells)
  IN SelectSeq(timers, Keep)

\* _renderSplitFlap: the loop over the cells, and anyChanged
Retarget(f, text) ==
  [f EXCEPT !.target = text,
            !.timers = ClearTimers(@, ChangedCells(f, text))
                         \o StartTimers(ChangedCells(f, text)),
            !.complete = IF ChangedCells(f, text) # {} THEN FALSE ELSE @]

\* _renderSplitFlap(state), with splitFlapCase 'upper'
RenderSplitFlap(f, st) ==
  IF st.text = <<>> /\ ~st.visible
  THEN f
  ELSE Retarget(f, Fit(ToUpperCase(st.text)))

\* ------------------------------------------------------------ split flap bench
\* the time between two frames
FlapDeltas == {20}

FlapFrame(text, visible) == [text |-> text, visible |-> visible]

\* a clock text, a short text, a text that is too long, a text with a letter,
\* an empty text, and the hidden empty state
FlapFrames ==
  { FlapFrame(<<"1", "0", ":", "0", "1">>, TRUE),
    FlapFrame(<<"0", "1">>, TRUE),
    FlapFrame(<<"2", "1", "0", "1", "2", "0">>, TRUE),
    FlapFrame(<<"a", "1">>, TRUE),
    FlapFrame(<<>>, TRUE),
    FlapFrame(<<>>, FALSE) }

\* the smallest time left of the pending timers
MinLeft(timers) ==
  CHOOSE m \in {timers[k].left : k \in DOMAIN timers} :
    \A k \in DOMAIN timers : timers[k].left >= m

\* the timer the browser runs next: the earliest due, the first set among equals
FirstDue(timers) ==
  CHOOSE k \in DOMAIN timers :
    /\ timers[k].left = MinLeft(timers)
    /\ \A j \in 1..(k - 1) : timers[j].left # MinLeft(timers)

\* d ms pass
Elapse(timers, d) == [k \in DOMAIN timers |-> [timers[k] EXCEPT !.left = @ - d]]

Without(timers, k) == SubSeq(timers, 1, k - 1) \o SubSeq(timers, k + 1, Len(timers))

\* renderer.render(state), d ms after the previous frame or timer and before
\* the next timer is due
RenderFlap ==
  /\ flap.renders < MaxRenders
  /\ \E st \in FlapFrames, d \in FlapDeltas :
       /\ \A k \in DOMAIN flap.timers : d < flap.timers[k].left
       /\ flap' = RenderSplitFlap([flap EXCEPT !.timers = Elapse(@, d),
                                               !.renders = @ + 1], st)
  /\ lastOp' = "render"
  /\ UNCHANGED <<timelineVars, phaseVars, tokenContext, asked, answer, led>>

\* the browser runs the timer that is due next
Timeout ==
  /\ flap.timers # <<>>
  /\ flap' = RunTimer([flap EXCEPT !.timers =
                         Elapse(Without(@, FirstDue(flap.timers)),
                                MinLeft(flap.timers))],
                      flap.timers[FirstDue(flap.timers)])
  /\ lastOp' = "timeout"
  /\ UNCHANGED <<timelineVars, phaseVars, tokenContext, asked, answer, led>>

NextFlap == RenderFlap \/ Timeout

SpecFlap == InitBench /\ [][NextFlap]_vars

\* Timers that are due run: the browser's event loop starves no timer.
SpecFlapFair == SpecFlap /\ WF_vars(Timeout)

\* ------------------------------------------------------------ destroy bench
\* destroy() has emptied the renderer's arrays
Destroyed == flap.current = <<>>

\* a timer that _flipCell has set
IsStep(t) == t.kind = "step"

\* renderer.destroy(): clearTimeout for the handles in _sfFlipTimers, the
\* stagger timers; the buffers are dropped (null is the empty tuple here) and
\* the queue and the cell arrays are emptied
DestroyRenderer ==
  /\ ~Destroyed
  /\ flap' = [flap EXCEPT !.timers = SelectSeq(@, IsStep),
                          !.current = <<>>, !.target = <<>>]
  /\ led' = [led EXCEPT !.dots = <<>>, !.flipQueue = <<>>,
                        !.flipVisibleDots = <<>>, !.flipVisibleColors = <<>>]
  /\ lastOp' = "destroyRenderer"
  /\ UNCHANGED <<timelineVars, phaseVars, tokenContext, asked, answer>>

\* A renderer is a dot matrix or a split-flap display, never both: it renders
\* in the mode of its first frame, until it is destroyed.
NextDestroy ==
  \/ ~Destroyed /\ flap.renders = 0 /\ Render
  \/ ~Destroyed /\ led.frames = 0 /\ RenderFlap
  \/ Timeout
  \/ DestroyRenderer

SpecDestroy == InitBench /\ [][NextDestroy]_vars

\* ------------------------------------------------------------ properties
Heard == [k \in 1..Len(log) |-> <<log[k].ev, log[k].index>>]

\* phaseStart(0), phaseEnd(0), ..., phaseStart(n-1), phaseEnd(n-1), sequenceEnd
ExpectedLog(n) ==
  [k \in 1..(2 * n + 1) |->
     IF k = 2 * n + 1 THEN <<"sequenceEnd", 0>>
     ELSE IF k % 2 = 1 THEN <<"phaseStart", (k - 1) \div 2>>
     ELSE <<"phaseEnd", (k \div 2) - 1>>]

\* C1: in an undisturbed session of a non-looping sequence of n steps the
\* notifications emitted so far are a prefix of phaseStart(0), phaseEnd(0),
\* phaseStart(1), ..., phaseEnd(n-1), sequenceEnd, and once the Timeline is
\* back in IDLE they are exactly that list, each entry once.
C1_NotificationOrder ==
  (calls = 1 /\ ~options.loop) =>
    LET n == Len(stepConfigs.steps)
    IN /\ Len(log) <= 2 * n + 1
       /\ \A k \in 1..Len(log) : Heard[k] = ExpectedLog(n)[k]
       /\ Len(log) >= 1
       /\ state = IDLE => Len(log) = 2 * n + 1

C1_Witness ==
  /\ calls = 1 /\ ~options.loop
  /\ lastOp = "tick:finished"
  /\ Len(stepConfigs.steps) = 2
  /\ Len(log) = 5

\* C2: every phase handed to renderer.render() sits at the current index and
\* was announced by a phaseStart notification before that render call.
C2_RenderAfterPhaseStart ==
  renderFaults \cap {"unannounced", "wrongSlot"} = {}

\* a render in the second pass of a looping sequence
C2_Witness ==
  /\ lastOp = "tick:ran"
  /\ calls = 1 /\ options.loop
  /\ \E k \in DOMAIN log : log[k].ev = "sequenceEnd"

Edge(from, to, by) == <<from, to, by>>

AllowedEdges ==
  {Edge(IDLE, PLAYING, "play"), Edge(PAUSED, PLAYING, "play"),
   Edge(PLAYING, PAUSED, "pause"),
   Edge(PLAYING, IDLE, "stop"), Edge(PAUSED, IDLE, "stop"),
   Edge(PLAYING, IDLE, "complete")}

\* C4: the state is IDLE, PLAYING or PAUSED and every change of it made by a
\* handler follows one of the edges IDLE->PLAYING and PAUSED->PLAYING by
\* play(), PLAYING->PAUSED by pause(), any->IDLE by stop(), PLAYING->IDLE by
\* the completion of the last phase without loop.
C4_StateEdges ==
  /\ state \in States
  /\ \A k \in DOMAIN trail : trail[k] \in AllowedEdges

\* C5: renderer.render() is never called while stop() (or destroy(), or
\* setSequence()) has been called and play() not since, nor while the
\* Timeline is not PLAYING.
C5_NoRenderAfterStop ==
  renderFaults \cap {"afterStop", "notPlaying"} = {}

\* a frame callback left over from a tick in which a listener called stop()
\* fires, with a constructed phase at hand, and is ignored
C5_Witness ==
  /\ stopped
  /\ lastOp = "tick:ignored"
  /\ \E i \in DOMAIN phases : phases[i] # NoPhase

\* C6: once stop() or destroy() has been called and the handler has returned,
\* no tick callback of the Timeline is pending (until play() is called).
C6_StopCancelsTick == stopped => scheduled = {}

\* C7: stop() from any state leaves the Timeline IDLE at cursor 0 with no
\* constructed phase and no tick handle, and leaves the stored steps and the
\* listeners as they were; a play() from IDLE that no listener interferes with
\* builds and starts phase 0 from the stored steps, announces it and starts
\* at index 0.
C7_StopResets ==
  [][/\ lastOp' = "stop" =>
          /\ state' = IDLE
          /\ currentIndex' = 0
          /\ phases' = NoPhases
          /\ rafId' = NoId
          /\ stepConfigs' = stepConfigs
          /\ listeners' = listeners
          /\ emitted' = <<>>
     /\ (lastOp' = "play" /\ state = IDLE /\ ~NoSteps(Pack) /\ calls' = 1) =>
          /\ state' = PLAYING
          /\ currentIndex' = 0
          /\ stepConfigs' = stepConfigs
          /\ emitted' = <<<<"phaseStart", 0>>>>
          /\ phases' = [NoPhases EXCEPT ![0] =
                          [PhaseStart(CreatePhase(stepConfigs.steps[1], FALSE, 0))
                             EXCEPT !.announced = TRUE]]
    ]_vars

\* stop() called while PAUSED in the middle of the second step
C7_Witness ==
  /\ lastOp = "stop"
  /\ trail = <<Edge(PAUSED, IDLE, "stop")>>
  /\ Len(stepConfigs.steps) = 2
  /\ listeners = Events

\* C8: setSequence(steps) in any state stores the new steps, leaves the
\* Timeline IDLE at cursor 0 with no constructed phase, cancels the pending
\* tick this.rafId names; and no phase built from a replaced step list is ever
\* kept, advanced or rendered.
C8_SetSequenceResets ==
  /\ [][\A l \in StepLists :
          SetSequenceWith(l) =>
            /\ stepConfigs' = Sequence(l)
            /\ state' = IDLE
            /\ currentIndex' = 0
            /\ phases' = NoPhases
            /\ rafId' = NoId
            /\ rafId \notin scheduled'
            /\ scheduled \subseteq {rafId} => scheduled' = {}
       ]_vars
  /\ [](/\ "stale" \notin renderFaults
        /\ \A i \in DOMAIN phases :
             IF phases[i] = NoPhase THEN TRUE ELSE ~phases[i].stale)

\* setSequence() called while PLAYING with a tick pending
C8_Witness ==
  /\ lastOp = "setSequence"
  /\ trail = <<Edge(PLAYING, IDLE, "stop")>>
  /\ scheduled = {}
  /\ Len(stepConfigs.steps) >= 1

TickOutcomes ==
  {"tick:ignored", "tick:skipped", "tick:nophase", "tick:ran", "tick:next",
   "tick:loop", "tick:finished", "tick:threw"}

\* C9: pause() keeps the constructed phases and the cursor; while PAUSED a
\* tick callback that still fires is ignored (no update, no render, no
\* notification); play() from PAUSED keeps the phases and the cursor, emits
\* nothing, and the first tick after it advances the same phase instance from
\* its accumulated elapsed time.
C9_PauseResume ==
  [][/\ (lastOp' = "pause" /\ state = PLAYING) =>
          /\ state' = PAUSED
          /\ phases' = phases
          /\ currentIndex' = currentIndex
          /\ rafId' = NoId
     /\ (state = PAUSED /\ lastOp' \in TickOutcomes) =>
          /\ lastOp' = "tick:ignored"
          /\ state' = PAUSED
          /\ phases' = phases
          /\ currentIndex' = currentIndex
          /\ emitted' = <<>>
          /\ renderFaults' = renderFaults
     /\ (lastOp' = "play" /\ state = PAUSED) =>
          /\ state' = PLAYING
          /\ phases' = phases
          /\ currentIndex' = currentIndex
          /\ emitted' = <<>>
     /\ (state = PLAYING /\ lastTimestamp = 0 /\ lastOp' = "tick:ran") =>
          /\ currentIndex' = currentIndex
          /\ phases' = [phases EXCEPT ![currentIndex].elapsed = @ + FirstDelta]
    ]_vars

\* play() resumes a Timeline paused in the middle of a phase
C9_Witness ==
  /\ lastOp = "play"
  /\ trail = <<Edge(PAUSED, PLAYING, "play")>>
  /\ phases[currentIndex] # NoPhase
  /\ phases[currentIndex].elapsed > 0

\* C10: under a frame-rate cap a skipped tick updates no phase, renders
\* nothing and leaves lastTimestamp alone, and the deltas passed to
\* phase.update since play() add up to the last executed timestamp minus the
\* first one, plus the fixed first delta.
C10_NoTimeLost ==
  /\ [](firstTs # 0 => sumDt = lastTimestamp - firstTs + FirstDelta)
  /\ [][lastOp' = "tick:skipped" =>
          /\ options.maxFps > 0
          /\ phases' = phases
          /\ lastTimestamp' = lastTimestamp
          /\ sumDt' = sumDt
          /\ currentIndex' = currentIndex
          /\ state' = state
          /\ emitted' = <<>>
          /\ renderFaults' = renderFaults
       ]_vars

\* a tick skipped 8 ms after the first executed tick of a session
C10_Witness ==
  /\ lastOp = "tick:skipped"
  /\ firstTs # 0
  /\ sumDt = FirstDelta
  /\ now - lastTimestamp = 8

\* C11: when play() (or setSequence()) lets the unknown-phase error escape,
\* the Timeline is IDLE at cursor 0 with no constructed phase, no tick handle,
\* no pending frame callback, and it has emitted nothing.
C11_ConfigErrorLeavesIdle ==
  (thrown = UnknownPhase /\ lastOp \in {"play", "setSequence"}) =>
    /\ state = IDLE
    /\ currentIndex = 0
    /\ phases = NoPhases
    /\ rafId = NoId
    /\ scheduled = {}
    /\ emitted = <<>>
    /\ trail = <<>>

\* play() threw on a list whose first step has an unknown type
C11_Witness ==
  /\ thrown = UnknownPhase
  /\ lastOp = "play"
  /\ stepConfigs.defined
  /\ Len(stepConfigs.steps) = 2
  /\ stepConfigs.steps[1] = BogusStep

\* C12: the unknown-phase error escapes only from setSequence() or play(),
\* never from a tick callback, and the cursor never moves past a step of an
\* unknown type (the step is not skipped).
C12_UnknownPhaseFailsFast ==
  /\ thrown = UnknownPhase => lastOp \in {"play", "setSequence"}
  /\ \A i \in DOMAIN stepConfigs.steps :
       stepConfigs.steps[i].phase \notin Registered => currentIndex <= i - 1

\* C13: when a phase's update(dt) throws inside a tick, the Timeline is left
\* stopped: state IDLE, no constructed phase, no pending frame callback.
C13_UpdateErrorStops ==
  thrown = UpdateFailed =>
    /\ state = IDLE
    /\ phases = NoPhases

\* C14: a handler that begins a phase (emits its phaseStart) calls the
\* step's onStart once, and a handler that completes a phase (emits its
\* phaseEnd) calls the step's onEnd once.
C14_StepCallbacks ==
  \A k \in DOMAIN emitted :
    LET ev == emitted[k][1]
        i == emitted[k][2]
        name == IF ev = "phaseStart" THEN "onStart" ELSE "onEnd"
    IN (/\ ev \in {"phaseStart", "phaseEnd"}
        /\ listeners = {}
        /\ i + 1 \in DOMAIN stepConfigs.steps
        /\ IF ev = "phaseStart" THEN stepConfigs.steps[i + 1].onStart
                                ELSE stepConfigs.steps[i + 1].onEnd)
       => Cardinality({j \in DOMAIN invoked : invoked[j] = <<name, i>>}) = 1

\* C15: after setTheme(opts) and after loaded data has been applied, the
\* Timeline's loop option equals the loop value of the Marquee's merged
\* options.
C15_LoopHonoured ==
  lastOp \in {"setTheme", "applyLoadedData"} => options.loop = marquee.loop

\* the phase types whose factory places the text itself
PlacesText(step, prev) ==
  \/ TypeOf(step) \in {"slide-in", "split-flap"}
  \/ HasNewText(step, prev)

\* C16: a phase built after a predecessor whose step omits text shows the
\* predecessor's final text for its whole run; one whose step omits
\* stripeDirection keeps the predecessor's; and unless its factory places the
\* text itself (new text, slide-in, split-flap) it starts at the
\* predecessor's final offsetX and offsetY.
C16_StateInheritance ==
  (cur # NoInst /\ prevState # NoState) =>
    /\ cur.step.text = <<>> => cur.state.text = prevState.text
    /\ cur.step.stripeDirection = "" =>
         cur.state.stripeDirection = prevState.stripeDirection
    /\ (lastOp = "create" /\ ~PlacesText(cur.step, prevState)) =>
         /\ cur.state.offsetX = prevState.offsetX
         /\ cur.state.offsetY = prevState.offsetY

\* a flash without text built after a scroll of HI that ended centered
C16_Witness ==
  /\ lastOp = "create"
  /\ cur # NoInst /\ prevState # NoState
  /\ cur.type = "flash"
  /\ cur.step.text = <<>>
  /\ prevState.text = HI
  /\ prevState.offsetX = Num(220)
  /\ cur.state.offsetX = Num(220)
  /\ cur.state.stripeDirection = "horizontal"

\* C17: a phase whose step introduces new text starts with the text centered,
\* offsetX = (containerWidth - textWidth) / 2, when it is a pause, flash,
\* float, fade, wipe, slide-in or split-flap phase, and at the off-screen edge
\* when it is a scroll phase.
C17_NewTextCentered ==
  (cur # NoInst /\ lastOp = "create" /\ HasNewText(cur.step, prevState)) =>
    /\ cur.type \in {"pause", "flash", "slide-in", "split-flap"}
                    \cup FloatTypes \cup FadeTypes \cup WipeTypes =>
         cur.state.offsetX = CenterX(cur.containerWidth, cur.textWidth)
    /\ cur.type = "scroll-left" => cur.state.offsetX = Num(cur.containerWidth)
    /\ cur.type = "scroll-right" => cur.state.offsetX = Num(0 - cur.textWidth)

\* C18: a pause phase whose step has no text of its own shows, for its whole
\* run, the text, offsetX, offsetY and colors of its predecessor's final state.
C18_PauseHolds ==
  (cur # NoInst /\ prevState # NoState /\ cur.type = "pause"
     /\ cur.step.text = <<>>) =>
    /\ cur.state.text = prevState.text
    /\ cur.state.offsetX = prevState.offsetX
    /\ cur.state.offsetY = prevState.offsetY
    /\ cur.state.colors = prevState.colors

C20_ScrollEndsCentered ==
  (cur # NoInst /\ cur.type \in ScrollTypes /\ UntilOf(cur.step) = "center") =>
    /\ done => cur.state.offsetX = CenterX(cur.containerWidth, cur.textWidth)
    /\ (lastOp = "create" /\ cur.type = "scroll-left"
          /\ HasNewText(cur.step, prevState)) =>
         cur.state.offsetX = Num(cur.containerWidth)

\* HI (60 px wide) scrolled left in a 500 px container has arrived at 220
C20_Witness ==
  /\ done
  /\ cur # NoInst
  /\ cur.type = "scroll-left"
  /\ UntilOf(cur.step) = "center"
  /\ prevState = NoState
  /\ cur.state.text = HI
  /\ cur.containerWidth = 500 /\ cur.textWidth = 60
  /\ cur.startX = Num(500)
  /\ cur.state.offsetX = Num(220)

\* C21: a flash phase with times t and interval i has counted one toggle for
\* every multiple of i that elapsed has reached, shows the text after an even
\* number of toggles and hides it after an odd number, makes 2t toggles in
\* total, and has completed exactly when elapsed >= 2 * t * i, with the text
\* visible again.
C21_FlashToggles ==
  (cur # NoInst /\ cur.type = "flash") =>
    /\ cur.toggleCount = cur.elapsed \div IntervalOf(cur.step)
    /\ cur.state.visible = (cur.toggleCount % 2 = 0)
    /\ cur.toggleCount <= 2 * TimesOf(cur.step)
    /\ done = (cur.elapsed >= 2 * TimesOf(cur.step) * IntervalOf(cur.step))
    /\ done => cur.state.visible

\* C22: a phase driven by a duration whose step gives a duration <= 0 has
\* completed after its first update, and a scroll phase whose step gives a
\* speed <= 0 has not completed after any of the updates made here (it runs
\* on or is very slow); no step is rejected.
C22_MalformedDegrades ==
  (cur # NoInst /\ lastOp = "advance") =>
    /\ (cur.type \notin ScrollTypes \cup {"flash"} /\ cur.step.duration <= 0) =>
         done
    /\ (cur.type \in ScrollTypes /\ cur.step.speed <= 0) => ~done

\* C23: the state of every phase instance - constructed, started or updated,
\* liveTokens or not - has as many colors as its text has characters.
C23_ColorsMatchText ==
  cur # NoInst => Len(cur.state.colors) = Len(cur.state.text)

\* the entries of palette P that are nearest to c
Nearest(c, P) ==
  {i \in 1..Len(P) : \A j \in 1..Len(P) : Dist(c, P[i]) <= Dist(c, P[j])}

\* C24: snapToPresetColor(c, P) for a hex color c and a non-empty palette P
\* returns the entry of P with the least squared RGB distance to c, and of
\* several such entries the first in P.
C24_SnapNearestFirst ==
  lastOp = "snap" =>
    \E i \in Nearest(asked.color, asked.palette) :
      /\ \A j \in Nearest(asked.color, asked.palette) : i <= j
      /\ answer = asked.palette[i]

\* '#0010ee' against ['#ff0000', '#00ff00'] is snapped to '#00ff00'
\* (113765 against 121925)
C24_Witness ==
  /\ lastOp = "snap"
  /\ asked.color = Hex("0", "0", "1", "0", "e", "e")
  /\ asked.palette = <<Hex("f", "f", "0", "0", "0", "0"),
                       Hex("0", "0", "f", "f", "0", "0")>>
  /\ Dist(asked.color, asked.palette[1]) = 121925
  /\ Dist(asked.color, asked.palette[2]) = 113765
  /\ answer = Hex("0", "0", "f", "f", "0", "0")

\* C25: resolveColors for a color string that is no color returns the
\* built-in default color '#ff3300' for every character, with or without a
\* palette.
C25_BadColorFallsBack ==
  (lastOp = "resolve" /\ asked.color # <<>>
     /\ ~IsHex6(NormalizeColor(asked.color))) =>
    \A i \in 1..Len(answer) : answer[i] = DefaultHex

\* C26: the wear counter of every dot equals the number of flip-queue events
\* that changed what the dot shows - its on/off state, or its color while it
\* stays on; it never moves otherwise.
C26_WearCountsChanges ==
  \A i \in Dots : led.flipCounts[i] = led.changes[i]

\* C27: after every render() call every dot configured 'on' is on in the
\* target buffer and every dot configured 'off' is off, whatever the text,
\* the wipe progress and the visible flag of the rendered state.
C27_StuckTilesLast ==
  lastOp = "render" =>
    \A i \in DOMAIN led.stuckTiles :
      /\ led.stuckTiles[i] = "on" => led.dots[i] = 1
      /\ led.stuckTiles[i] = "off" => led.dots[i] = 0

\* C30: the due times a render call gives the changed columns increase from
\* left to right in steps of flipSpeed, and no dot of the visible buffer
\* changes before the due time its column was given when its target was
\* first scheduled - also in the render calls that follow while the cascade
\* is in progress.
C30_CascadeOrder ==
  /\ \A k \in 1..Len(led.schedule) :
       /\ led.schedule[k].time = led.schedule[1].time + (k - 1) * FlipSpeed
       /\ k > 1 => led.schedule[k - 1].col < led.schedule[k].col
  /\ led.early = {}

\* C28: splitFlapComplete becomes false in the same render call in which any
\* cell's target changes, and whenever splitFlapComplete is true every cell's
\* current character equals its target.
C28_CompleteMeansSettled ==
  /\ [](flap.complete => flap.current = flap.target)
  /\ [][flap'.target # flap.target => ~flap'.complete]_vars

\* targets were set, the cells flipped, and the display is complete again
C28_Witness ==
  /\ flap.complete
  /\ flap.renders > 0
  /\ flap.target # Spaces(CellCount)
  /\ flap.current = flap.target

\* C29: once the targets are set and the timers run, splitFlapComplete is
\* eventually true for good with every cell at its last-set target, whatever
\* the text.
C29_Settles == <>[](flap.complete /\ flap.current = flap.target)

\* C40: when a flash phase reports completion, the state it leaves has
\* visible = TRUE, whatever the deltas were.
C40_FlashEndsVisible ==
  (cur # NoInst /\ cur.type = "flash" /\ done) => cur.state.visible

\* C35: at any time at most one tick callback of the Timeline is scheduled,
\* whatever play(), pause(), stop() and setSequence() calls were made, between
\* frames or from listeners during a tick.
C35_SingleDriver == Cardinality(scheduled) <= 1

\* C36: whenever the state is PLAYING between two handlers, a tick callback
\* is scheduled and the phase at the current index is constructed - also
\* after a phase build or a phase update has thrown inside a tick.
C36_NeverStalls ==
  state = PLAYING =>
    /\ scheduled # {}
    /\ PhaseAt(Pack, currentIndex) # NoPhase

\* C37: when a listener notified during the tick that ends a sequence without
\* loop restarts the Timeline (its play() takes the state to PLAYING, as after
\* stop() or setSequence()), the Timeline is PLAYING when the tick returns.
C37_RestartKept ==
  (/\ lastOp = "tick:finished"
   /\ \E k \in DOMAIN trail : trail[k][2] = PLAYING /\ trail[k][3] = "play")
    => state = PLAYING

\* C39: the first tick that runs after play(), from IDLE or from PAUSED, is
\* never skipped by the frame-rate cap and passes 16 ms to phase.update,
\* whatever its timestamp: a phase that goes on has advanced by 16 ms, and
\* the deltas of the session add up to 16 ms.
C39_FirstTickFixed ==
  [][(state = PLAYING /\ lastTimestamp = 0 /\ lastOp' \in TickOutcomes) =>
       /\ lastOp' # "tick:skipped"
       /\ lastOp' = "tick:ran" =>
            phases' = [phases EXCEPT ![currentIndex].elapsed = @ + FirstDelta]
       /\ firstTs' # 0 => sumDt' = FirstDelta
    ]_vars

\* under a cap, the first tick after a resume from PAUSED comes 8 ms after
\* play() and completes a phase that had run 16 ms before the pause
C39_Witness ==
  /\ options.maxFps > 0
  /\ lastOp = "tick:finished"
  /\ now = 8
  /\ firstTs = now
  /\ sumDt = FirstDelta
  /\ phases[0] # NoPhase
  /\ phases[0].elapsed = 2 * FirstDelta

\* C34: no phase is constructed ahead of the cursor, and the only phase
\* instances the Timeline holds are the one at the current index and the one
\* just before it.
C34_LazyNotRetained ==
  \A i \in Built(Pack) : i \in {currentIndex - 1, currentIndex}

\* C38: once a dot of the visible buffer shows the target of a render call,
\* no queued event that an earlier render call computed changes what that
\* dot shows.
C38_NoStaleRevert == led.stale = {}

\* C31: the flip queue is drained: in the end no event is left in the queue
\* and the visible buffer shows the target, also when no frame is rendered
\* any more.
C31_QueueDrains ==
  <>[](led.flipQueue = <<>> /\ led.flipVisibleDots = led.dots)

\* the flip-step timers pending for cell i: the flip chains that are active
StepsOf(i) ==
  {k \in DOMAIN flap.timers :
     flap.timers[k].cell = i /\ flap.timers[k].kind = "step"}

\* C32: a cell has at most one flip chain active: at most one flip-step timer
\* is pending for it, so that it advances at most one wheel position per
\* flipDuration, also when its target changes in the middle of a chain.
C32_OneChain == \A i \in Cells : Cardinality(StepsOf(i)) <= 1

\* C33: destroy() releases every pending timer: once the renderer is
\* destroyed no timer callback runs, splitFlapComplete stays as it is, and
\* the flip queue is empty.
C33_DestroyReleases ==
  [][Destroyed => /\ lastOp' # "timeout"
                  /\ flap'.complete = flap.complete
                  /\ led.flipQueue = <<>>]_vars

====
